---- MODULE Spec2Model ----
(***************************************************************************)
(* State-machine model of the IFScenter backend (Flask route handlers over *)
(* SQLAlchemy / Supabase): account provisioning, parts CRUD, usage-limit   *)
(* guards for guided-session messages and journals, and the Stripe         *)
(* webhook.  One action per route handler; a protected handler includes    *)
(* the auth_required decorator that wraps it.                              *)
(***************************************************************************)
EXTENDS Integers, FiniteSets, Sequences, TLC

\* ----------------------------------------------------------------- bounds
MaxUsers == 2
MaxSystems == 3
MaxParts == 2
MaxPartRows == 12
MaxSessions == 2
MaxMessages == 2
MaxJournals == 11
MaxDay == 2
MaxStripeIds == 1
MaxRelParts == 3
MaxRelationships == 2
MaxRequests == 2

UserIds == 1..MaxUsers
SystemIds == 1..MaxSystems
PartIds == 1..MaxPartRows
SessionIds == 1..MaxSessions
MessageIds == 1..(MaxMessages + 2)
JournalIds == 1..MaxJournals
Days == 1..MaxDay
StripeIds == 1..MaxStripeIds

\* A missing id (SQL NULL, or no Authorization header): ids start at 1.
None == 0

PartNames == {"Self", "Manager"}
PartRoles == {"Self", "Protector"}
Tiers == {"free", "pro", "unlimited"}

\* Which write of the request the database refuses (an exception the code
\* catches): none, the lazily created user row, the system row, a Self part.
FailPoints == {"none", "user", "system", "self"}

VARIABLES
  use_supabase_auth,  \* SUPABASE_USE_FOR_AUTH (auth_adapter.py)
  supabase_available, \* supabase.is_available(): the client was created at start-up
  provider_reachable, \* calls to the hosted auth provider get an answer
  using_supabase,     \* SUPABASE_USE_FOR_DB (db_adapter.py)
  tokens,             \* identities for which a valid access token exists
  users,              \* table users: id -> row
  ifs_systems,        \* table ifs_systems: set of rows
  parts,              \* table parts: set of rows
  guided_sessions,    \* table guided_sessions: set of rows
  session_messages,   \* table session_messages: set of rows
  journals,           \* table journals: set of rows
  relationships,      \* table relationships: set of rows
  LLM_AVAILABLE,      \* the LLMService import succeeded (conversations.py)
  webhook_secret,     \* STRIPE_WEBHOOK_SECRET is configured (billing.py)
  today,              \* the current date, counted in days
  llm_calls,          \* calls made to the hosted inference API
  inflight,           \* requests being served: request number -> its position and locals
  environ,            \* os.environ: variable name -> value
  resp                \* the last request and its response

db_vars == <<users, ifs_systems, parts, guided_sessions, session_messages, journals,
             relationships>>
config_vars == <<use_supabase_auth, supabase_available, using_supabase, LLM_AVAILABLE,
                webhook_secret>>
world_vars == <<provider_reachable, today, llm_calls, inflight, environ>>
vars == <<use_supabase_auth, supabase_available, provider_reachable, using_supabase,
          LLM_AVAILABLE, webhook_secret, tokens,
          users, ifs_systems, parts, guided_sessions, session_messages, journals,
          relationships, today, llm_calls, inflight, environ, resp>>

\* ------------------------------------------------------------ rows, helpers
Min(S) == CHOOSE x \in S : \A y \in S : x <= y

\* A users row as User(...) leaves it: the address (unique) and the column
\* defaults.  Addresses are numbered like the ids.
User(email) ==
  [email |-> email,
   subscription_tier |-> "free", subscription_status |-> "none",
   stripe_customer_id |-> None, stripe_subscription_id |-> None,
   daily_messages_used |-> 0, last_message_date |-> None,
   daily_journals_used |-> 0, last_journal_date |-> None]

IFSSystem(id, user_id) == [id |-> id, user_id |-> user_id]

Part(id, system_id, name, role) ==
  [id |-> id, system_id |-> system_id, name |-> name, role |-> role]

\* uuid4 primary keys: a key no row of the table holds.
FreshSystemId(systems) == Min(SystemIds \ {s.id : s \in systems})
FreshPartId(ps) == Min(PartIds \ {p.id : p \in ps})

\* IFSSystem.query.filter_by(user_id=...).first()
SystemsOf(systems, user_id) == {s \in systems : s.user_id = user_id}
FirstSystemOf(systems, user_id) ==
  CHOOSE s \in SystemsOf(systems, user_id) :
    \A t \in SystemsOf(systems, user_id) : s.id <= t.id

PartsOf(ps, system_id) == {p \in ps : p.system_id = system_id}
SelfRoleParts(ps, system_id) == {p \in PartsOf(ps, system_id) : p.role = "Self"}

DB ==
  [users |-> users, ifs_systems |-> ifs_systems, parts |-> parts,
   guided_sessions |-> guided_sessions, session_messages |-> session_messages,
   journals |-> journals, relationships |-> relationships]
SetDB(d) ==
  /\ users' = d.users
  /\ ifs_systems' = d.ifs_systems
  /\ parts' = d.parts
  /\ guided_sessions' = d.guided_sessions
  /\ session_messages' = d.session_messages
  /\ journals' = d.journals
  /\ relationships' = d.relationships

\* ------------------------------------------------------------- auth_required
\* The JWT arm: verify_jwt_in_request, g.current_user = {"id": user_id}.
AuthJWT_unverified(tok) ==
  [status |-> 200, user_id |-> tok, db |-> DB]
AuthJWT(tok) ==
  IF tok \in tokens
  THEN [status |-> 200, user_id |-> tok, db |-> DB]
  ELSE [status |-> 401, user_id |-> None, db |-> DB]

\* The provider account with id p is registered under address p.
ProviderEmail(p) == p

\* User.query.filter_by(email=...).first(); None when no row matches.
UserByEmail(us, email) ==
  IF \E u \in DOMAIN us : us[u].email = email
  THEN Min({u \in DOMAIN us : us[u].email = email})
  ELSE None

\* email_user.id = user_id_uuid: the row moves to the new primary key.
Rekey(us, old, new) ==
  [u \in (DOMAIN us \ {old}) \cup {new} |-> IF u = new THEN us[old] ELSE us[u]]

\* The Supabase arm, after the token verified.  A row with the provider id is
\* used as is; else the row holding the provider's address gets the provider
\* id (ifs_systems.user_id references users.id with no ON UPDATE rule, so the
\* update of a referenced row is refused); else a row is created.  A refused
\* write is rolled back and logged, and the request goes on.
EnsureUser(d, uid, fail) ==
  LET email_user == UserByEmail(d.users, ProviderEmail(uid)) IN
  IF uid \in DOMAIN d.users
  THEN d
  ELSE IF email_user # None
  THEN IF fail = "user" \/ SystemsOf(d.ifs_systems, email_user) # {}
       THEN d
       ELSE [d EXCEPT !.users = Rekey(d.users, email_user, uid)]
  ELSE IF fail = "user"
  THEN d
  ELSE [d EXCEPT !.users = d.users @@ (uid :> User(ProviderEmail(uid)))]

EnsureSystem(d, uid, fail) ==
  IF uid \notin DOMAIN d.users
  THEN d
  ELSE IF SystemsOf(d.ifs_systems, uid) = {}
  THEN IF fail \in {"system", "self"}
       THEN d
       ELSE LET sid == FreshSystemId(d.ifs_systems) IN
            [d EXCEPT !.ifs_systems = d.ifs_systems \cup {IFSSystem(sid, uid)},
                      !.parts = d.parts \cup
                                {Part(FreshPartId(d.parts), sid, "Self", "Self")}]
  ELSE LET sid == FirstSystemOf(d.ifs_systems, uid).id IN
       IF SelfRoleParts(d.parts, sid) # {} \/ fail = "self"
       THEN d
       ELSE [d EXCEPT !.parts = d.parts \cup
                                {Part(FreshPartId(d.parts), sid, "Self", "Self")}]

\* No client: 503.  No bearer token: 401.  get_user raising (the provider
\* does not answer) or returning no user: 401.
AuthSupabase(tok, fail) ==
  IF ~supabase_available
  THEN [status |-> 503, user_id |-> None, db |-> DB]
  ELSE IF tok = None \/ ~provider_reachable \/ tok \notin tokens
  THEN [status |-> 401, user_id |-> None, db |-> DB]
  ELSE [status |-> 200, user_id |-> tok,
        db |-> EnsureSystem(EnsureUser(DB, tok, fail), tok, fail)]

auth_required(tok, fail) ==
  IF use_supabase_auth THEN AuthSupabase(tok, fail) ELSE AuthJWT(tok)

\* ------------------------------------------------------------------ register
\* What supabase.client.auth.sign_up does for an address that already has an
\* account: raise AuthApiError, answer with a placeholder user and no session
\* (sign-ups that need confirmation), or answer without a user.
SignupOutcomes == {"raises", "placeholder", "no_user"}

\* uuid4 primary key of a new users row: the id numbered like the address
\* when no row holds it, else another unused id (None when the bound is hit).
FreshUserId(us, email) ==
  IF email \notin DOMAIN us THEN email
  ELSE IF UserIds \ DOMAIN us # {} THEN Min(UserIds \ DOMAIN us)
  ELSE None

\* register_user(firstName, email, password): the status the handler answers
\* when it raises (0 when it returns), the id of the account, whether an
\* access token comes back, and the users table afterwards.
register_user(email, signup) ==
  IF use_supabase_auth /\ supabase_available
  THEN IF ~provider_reachable
       THEN [raised |-> 500, id |-> None, token |-> FALSE, users |-> users]
       ELSE IF email \notin tokens
       THEN [raised |-> 0, id |-> email, token |-> TRUE, users |-> users]
       ELSE IF signup = "raises"
       THEN [raised |-> 500, id |-> None, token |-> FALSE, users |-> users]
       ELSE IF signup = "no_user"
       THEN [raised |-> 400, id |-> None, token |-> FALSE, users |-> users]
       ELSE [raised |-> 0, id |-> None, token |-> FALSE, users |-> users]
  ELSE IF UserByEmail(users, email) # None
       THEN [raised |-> 400, id |-> None, token |-> FALSE, users |-> users]
       ELSE LET id == FreshUserId(users, email) IN
            [raised |-> 0, id |-> id, token |-> ~use_supabase_auth,
             users |-> users @@ (id :> User(email))]

\* POST /register with a well-formed body.  After register_user the handler
\* adds the system and its Self part in one transaction, and swallows a
\* failure of that transaction (ifs_systems.user_id references users.id).
register(email, fail, signup) ==
  /\ \/ use_supabase_auth /\ supabase_available
     \/ UserByEmail(users, email) # None
     \/ FreshUserId(users, email) # None
  /\ LET r == register_user(email, signup)
         sid == FreshSystemId(ifs_systems)
         created == r.raised = 0 /\ fail = "none" /\ r.id \in DOMAIN r.users
     IN /\ users' = r.users
        /\ ifs_systems' = IF created THEN ifs_systems \cup {IFSSystem(sid, r.id)}
                          ELSE ifs_systems
        /\ parts' = IF created
                    THEN parts \cup {Part(FreshPartId(parts), sid, "Self", "Self")}
                    ELSE parts
        /\ tokens' = IF r.token THEN tokens \cup {r.id} ELSE tokens
        /\ resp' = [op |-> "register", user |-> email,
                    status |-> IF r.raised # 0 THEN r.raised ELSE 201]
  /\ UNCHANGED <<config_vars, world_vars, guided_sessions, session_messages, journals,
                 relationships>>

\* --------------------------------------------------------------------- login
\* login_user(username, password): what it hands back to the handler.  With
\* hosted auth in use it signs in at the provider: a tuple with both tokens,
\* ValueError for rejected credentials, any other exception re-raised.  The
\* function has no other branch: without hosted auth it falls off its end
\* and returns None.
login_user(email, correct) ==
  IF use_supabase_auth /\ supabase_available
  THEN IF ~provider_reachable THEN "Exception"
       ELSE IF email \in tokens /\ correct THEN "tuple"
       ELSE "ValueError"
  ELSE "None"

\* POST /login with a well-formed body: the handler unpacks the result into
\* three names (TypeError for None); ValueError is answered 401 and any other
\* exception 500.
login(email, correct) ==
  LET r == login_user(email, correct) IN
  /\ resp' = [op |-> "login", user |-> email, correct |-> correct,
              status |-> IF r = "tuple" THEN 200
                         ELSE IF r = "ValueError" THEN 401 ELSE 500,
              access_token |-> r = "tuple",
              refresh_token |-> r = "tuple"]
  /\ UNCHANGED <<config_vars, tokens, world_vars, db_vars>>

\* ------------------------------------------------------------ systems.py
\* GET /system: returns the user's system, creating it when missing.  The
\* system row and the default part are committed separately; the default
\* part is given the role "Core Self".
get_system_db(d, uid, fail) ==
  IF SystemsOf(d.ifs_systems, uid) # {}
  THEN [status |-> 200, db |-> d]
  ELSE IF uid \notin DOMAIN d.users \/ fail = "system"
  THEN [status |-> 500, db |-> d]
  ELSE LET sid == FreshSystemId(d.ifs_systems)
           d1 == [d EXCEPT !.ifs_systems = d.ifs_systems \cup {IFSSystem(sid, uid)}]
       IN IF fail = "self"
          THEN [status |-> 500, db |-> d1]
          ELSE [status |-> 200,
                db |-> [d1 EXCEPT !.parts = d.parts \cup
                          {Part(FreshPartId(d.parts), sid, "Self", "Core Self")}]]

get_system(tok, fail) ==
  LET a == auth_required(tok, fail) IN
  /\ IF a.status # 200
     THEN /\ SetDB(a.db)
          /\ resp' = [op |-> "get_system", user |-> tok, status |-> a.status]
     ELSE LET r == get_system_db(a.db, a.user_id, fail) IN
          /\ SetDB(r.db)
          /\ resp' = [op |-> "get_system", user |-> tok, status |-> r.status]
  /\ UNCHANGED <<config_vars, tokens, world_vars>>

\* POST /system/reset: the handler's raw SQL names the tables part,
\* relationship and journal, while the models map parts, relationships and
\* journals, so no row of the mapped tables is deleted.  legacy: the database
\* also holds tables of the singular names (the statements then succeed).
reset_system(tok, fail, legacy) ==
  LET a == auth_required(tok, fail) IN
  /\ SetDB(a.db)
  /\ resp' = [op |-> "reset_system", user |-> tok,
              status |-> IF a.status # 200 THEN a.status
                         ELSE IF SystemsOf(a.db.ifs_systems, a.user_id) = {} THEN 404
                         ELSE IF legacy THEN 200 ELSE 500]
  /\ UNCHANGED <<config_vars, tokens, world_vars>>

\* -------------------------------------------------------------- db_adapter
\* DBAdapter.create(parts, Part, data): parts.system_id references
\* ifs_systems.id; a refused insert is logged and None is returned.
adapter_create_part(d, system_id, name, role) ==
  IF system_id \notin {s.id : s \in d.ifs_systems}
  THEN [row |-> None, db |-> d]
  ELSE LET row == Part(FreshPartId(d.parts), system_id, name, role) IN
       [row |-> row.id, db |-> [d EXCEPT !.parts = d.parts \cup {row}]]

\* DBAdapter.get_by_id(parts, Part, id)
PartById(ps, id) == {p \in ps : p.id = id}

\* DBAdapter.update(parts, Part, id, data)
adapter_update_part(d, id, name, role) ==
  [d EXCEPT !.parts = {IF p.id = id THEN [p EXCEPT !.name = name, !.role = role] ELSE p
                        : p \in d.parts}]

\* The relationships that have the part as source or as target
\* (Part.source_relationships, Part.target_relationships).
RelationshipsOfPart(rs, id) == {r \in rs : r.part1_id = id \/ r.part2_id = id}

\* DBAdapter.delete(parts, Part, id): the ORM arm answers False for a missing
\* row; the REST arm answers True for any 2xx reply, matched rows or not.
\* session.delete(record) in the ORM arm deletes the part's relationships
\* with it (cascade "all, delete-orphan"); the REST arm sends one DELETE for
\* the part, which the foreign keys relationships.part1_id / part2_id refuse
\* while a relationship references the part.
adapter_delete_part_nocascade(d, id) ==
  [ok |-> using_supabase \/ PartById(d.parts, id) # {},
   db |-> [d EXCEPT !.parts = {p \in d.parts : p.id # id}]]
adapter_delete_part(d, id) ==
  IF using_supabase /\ RelationshipsOfPart(d.relationships, id) # {}
  THEN [ok |-> FALSE, db |-> d]
  ELSE [ok |-> using_supabase \/ PartById(d.parts, id) # {},
        db |-> [d EXCEPT !.parts = {p \in d.parts : p.id # id},
                         !.relationships = @ \ RelationshipsOfPart(@, id)]]

\* ------------------------------------------------ list fields of a Part
MaxFeelings == 2
Feelings == {"calm", "curious"}
FeelingLists == UNION {[1..n -> Feelings] : n \in 0..MaxFeelings}

\* Python values a list field can hold: a list of strings, a str, or None.
PyList(L) == [type |-> "list", items |-> L]
PyStr(s) == [type |-> "str", text |-> s]
PyNone == [type |-> "None"]

\* The elements of L, each between the quote q, separated by ", ".
RECURSIVE Joined(_, _)
Joined(L, q) ==
  IF L = <<>> THEN ""
  ELSE IF Len(L) = 1 THEN q \o L[1] \o q
  ELSE q \o L[1] \o q \o ", " \o Joined(Tail(L), q)

\* str(value) of a list of strings: "['calm', 'curious']".
py_str(L) == "[" \o Joined(L, "'") \o "]"

\* ast.literal_eval(text): the list the text is the literal of; PyNone stands
\* for ValueError / SyntaxError.
literal_eval(text) ==
  IF \E L \in FeelingLists : py_str(L) = text
  THEN PyList(CHOOSE L \in FeelingLists : py_str(L) = text)
  ELSE PyNone

\* requests.post(json=...) / response.json(): the JSON text of a value and
\* the value of a JSON text.  A list is an array, a str is a string.
json_dumps(v) ==
  IF v.type = "list" THEN "[" \o Joined(v.items, "\"") \o "]"
  ELSE IF v.type = "str" THEN "\"" \o v.text \o "\""
  ELSE "null"

JsonValues == {PyNone} \cup {PyList(L) : L \in FeelingLists}
                       \cup {PyStr(py_str(L)) : L \in FeelingLists}
json_loads(text) == CHOOSE v \in JsonValues : json_dumps(v) = text

\* DBAdapter.create, REST arm: every list value is replaced by str(value).
processed_data(v) == IF v.type = "list" THEN PyStr(py_str(v.items)) ELSE v

\* Part.__init__: self.feelings = feelings or []
Part_init(v) ==
  IF v.type = "None" \/ (v.type = "list" /\ v.items = <<>>) \/ (v.type = "str" /\ v.text = "")
  THEN PyList(<<>>)
  ELSE v

\* Part.to_dict, one list field: a str is parsed (a failed parse gives []),
\* None becomes [].
Part_to_dict(v) ==
  IF v.type = "str"
  THEN LET parsed == literal_eval(v.text) IN
       IF parsed.type = "list" THEN parsed ELSE PyList(<<>>)
  ELSE IF v.type = "None" THEN PyList(<<>>)
  ELSE v

PartWithFeelings(id, system_id, name, role, cell) ==
  [id |-> id, system_id |-> system_id, name |-> name, role |-> role, feelings |-> cell]

\* DBAdapter.create(parts, Part, data) with data["feelings"] = L.  The REST
\* arm posts processed_data as JSON and answers the representation the
\* server sends back (the jsonb column keeps the JSON value it was given);
\* the ORM arm builds Part(**data), commits and answers to_dict().
\* ok = FALSE: the backend refuses the write.
adapter_create_feelings(d, system_id, name, role, L, ok) ==
  IF ~ok \/ system_id \notin {x.id : x \in d.ifs_systems}
  THEN [id |-> None, feelings |-> PyNone, db |-> d]
  ELSE LET cell == IF using_supabase
                   THEN json_loads(json_dumps(processed_data(PyList(L))))
                   ELSE Part_init(PyList(L))
           row == PartWithFeelings(FreshPartId(d.parts), system_id, name, role, cell)
       IN [id |-> row.id,
           feelings |-> IF using_supabase
                        THEN json_loads(json_dumps(row.feelings))
                        ELSE Part_to_dict(row.feelings),
           db |-> [d EXCEPT !.parts = d.parts \cup {row}]]

\* DBAdapter.get_by_id(parts, Part, id), the field feelings of the answer:
\* the REST arm answers response.json()[0] as it is, the ORM arm answers
\* record.to_dict().  PyNone: no such row.
adapter_get_feelings(d, id) ==
  IF PartById(d.parts, id) = {} THEN PyNone
  ELSE LET row == CHOOSE x \in d.parts : x.id = id IN
       IF using_supabase
       THEN json_loads(json_dumps(row.feelings))
       ELSE Part_to_dict(row.feelings)

\* ---------------------------------------------------------------- parts.py
get_parts(tok, fail) ==
  LET a == auth_required(tok, fail) IN
  /\ SetDB(a.db)
  /\ resp' = [op |-> "get_parts", user |-> tok, status |-> a.status]
  /\ UNCHANGED <<config_vars, tokens, world_vars>>

create_part(tok, fail, system_id, name, role) ==
  LET a == auth_required(tok, fail)
      r == IF a.status = 200
           THEN adapter_create_part(a.db, system_id, name, role)
           ELSE [row |-> None, db |-> a.db]
  IN
  /\ SetDB(r.db)
  /\ resp' = [op |-> "create_part", user |-> tok,
              status |-> IF a.status # 200 THEN a.status
                         ELSE IF r.row = None THEN 500 ELSE 201,
              system_id |-> system_id,
              before |-> Cardinality(PartsOf(a.db.parts, system_id)),
              after |-> Cardinality(PartsOf(r.db.parts, system_id))]
  /\ UNCHANGED <<config_vars, tokens, world_vars>>

update_part(tok, fail, part_id, name, role) ==
  LET a == auth_required(tok, fail)
      target == PartById(a.db.parts, part_id)
  IN
  /\ IF a.status # 200
     THEN /\ SetDB(a.db)
          /\ resp' = [op |-> "update_part", user |-> tok, status |-> a.status,
                      target |-> target]
     ELSE IF target = {}
     THEN /\ SetDB(a.db)
          /\ resp' = [op |-> "update_part", user |-> tok, status |-> 404,
                      target |-> target]
     ELSE /\ SetDB(adapter_update_part(a.db, part_id, name, role))
          /\ resp' = [op |-> "update_part", user |-> tok, status |-> 200,
                      target |-> target]
  /\ UNCHANGED <<config_vars, tokens, world_vars>>

delete_part(tok, fail, part_id) ==
  LET a == auth_required(tok, fail)
      r == IF a.status = 200
           THEN adapter_delete_part(a.db, part_id)
           ELSE [ok |-> FALSE, db |-> a.db]
  IN
  /\ SetDB(r.db)
  /\ resp' = [op |-> "delete_part", user |-> tok,
              status |-> IF a.status # 200 THEN a.status
                         ELSE IF r.ok THEN 200 ELSE 404,
              target |-> PartById(a.db.parts, part_id),
              cascaded |-> Cardinality(a.db.relationships \ r.db.relationships)]
  /\ UNCHANGED <<config_vars, tokens, world_vars>>

\* ---------------------------------------------------------- relationships.py
RelationshipIds == 1..(MaxRelationships + 1)
RelationshipTypes == {"protects", "conflicts"}

Relationship(id, source_id, target_id, relationship_type, system_id) ==
  [id |-> id, part1_id |-> source_id, part2_id |-> target_id,
   relationship_type |-> relationship_type, system_id |-> system_id]

FreshRelationshipId(rs) == Min(RelationshipIds \ {r.id : r \in rs})

\* Relationship.query.filter_by(part1_id=..., part2_id=..., system_id=...)
RelationshipsOfTriple_unchecked(rs, source_id, target_id, system_id) == {}
RelationshipsOfTriple(rs, source_id, target_id, system_id) ==
  {r \in rs : r.part1_id = source_id /\ r.part2_id = target_id /\ r.system_id = system_id}

\* Relationship.query.filter_by(id=..., system_id=...)
RelationshipById(rs, id, system_id) == {r \in rs : r.id = id /\ r.system_id = system_id}

\* The caller's system: IFSSystem.query.filter_by(user_id=user_id).first()
CallerSystem(d, uid) ==
  IF SystemsOf(d.ifs_systems, uid) = {} THEN None ELSE FirstSystemOf(d.ifs_systems, uid).id

\* valid: the body passes RelationshipSchema.  fail = "relationship": the
\* commit raises, the session is rolled back and the answer is 500.
create_relationship(tok, fail, source_id, target_id, valid, relationship_type) ==
  LET a == auth_required(tok, fail)
      d == a.db
      sys == CallerSystem(d, a.user_id)
      existing_rel == RelationshipsOfTriple(d.relationships, source_id, target_id, sys)
      row == Relationship(FreshRelationshipId(d.relationships), source_id, target_id,
                          relationship_type, sys)
      out == IF a.status # 200 THEN [status |-> a.status, db |-> d]
             ELSE IF sys = None THEN [status |-> 404, db |-> d]
             ELSE IF ~valid THEN [status |-> 400, db |-> d]
             ELSE IF PartById(PartsOf(d.parts, sys), source_id) = {}
             THEN [status |-> 404, db |-> d]
             ELSE IF PartById(PartsOf(d.parts, sys), target_id) = {}
             THEN [status |-> 404, db |-> d]
             ELSE IF existing_rel # {} THEN [status |-> 400, db |-> d]
             ELSE IF fail = "relationship" THEN [status |-> 500, db |-> d]
             ELSE [status |-> 201,
                   db |-> [d EXCEPT !.relationships = @ \cup {row}]]
  IN
  /\ SetDB(out.db)
  /\ resp' = [op |-> "create_relationship", user |-> tok, status |-> out.status,
              source_id |-> source_id, target_id |-> target_id, system_id |-> sys,
              existed |-> a.status = 200 /\ sys # None /\ existing_rel # {}]
  /\ UNCHANGED <<config_vars, tokens, world_vars>>

\* has_body = FALSE: request.json is None and the membership test raises.
update_relationship(tok, fail, relationship_id, has_body, relationship_type) ==
  LET a == auth_required(tok, fail)
      d == a.db
      sys == CallerSystem(d, a.user_id)
      out == IF a.status # 200 THEN [status |-> a.status, db |-> d]
             ELSE IF sys = None THEN [status |-> 404, db |-> d]
             ELSE IF RelationshipById(d.relationships, relationship_id, sys) = {}
             THEN [status |-> 404, db |-> d]
             ELSE IF ~has_body \/ fail = "relationship" THEN [status |-> 500, db |-> d]
             ELSE [status |-> 200,
                   db |-> [d EXCEPT !.relationships =
                             {IF r.id = relationship_id
                              THEN [r EXCEPT !.relationship_type = relationship_type]
                              ELSE r : r \in @}]]
  IN
  /\ SetDB(out.db)
  /\ resp' = [op |-> "update_relationship", user |-> tok, status |-> out.status,
              relationship_id |-> relationship_id, system_id |-> sys]
  /\ UNCHANGED <<config_vars, tokens, world_vars>>

delete_relationship(tok, fail, relationship_id) ==
  LET a == auth_required(tok, fail)
      d == a.db
      sys == CallerSystem(d, a.user_id)
      out == IF a.status # 200 THEN [status |-> a.status, db |-> d]
             ELSE IF sys = None THEN [status |-> 404, db |-> d]
             ELSE IF RelationshipById(d.relationships, relationship_id, sys) = {}
             THEN [status |-> 404, db |-> d]
             ELSE IF fail = "relationship" THEN [status |-> 500, db |-> d]
             ELSE [status |-> 200,
                   db |-> [d EXCEPT !.relationships =
                             {r \in @ : r.id # relationship_id}]]
  IN
  /\ SetDB(out.db)
  /\ resp' = [op |-> "delete_relationship", user |-> tok, status |-> out.status,
              relationship_id |-> relationship_id, system_id |-> sys]
  /\ UNCHANGED <<config_vars, tokens, world_vars>>

\* ------------------------------------------- requests served at the same time
\* Each request is served by its own worker with its own database session;
\* what one request has committed is visible to the reads of the others.
RequestIds == 1..MaxRequests
FreeRequestIds == RequestIds \ DOMAIN inflight
Started(n, locals) == inflight @@ (n :> locals)
Finished(n) ==
  IF DOMAIN inflight = {n} THEN <<>> ELSE [k \in DOMAIN inflight \ {n} |-> inflight[k]]

\* create_relationship up to and including its existence check (lines 53-92):
\* the request is answered at once when a check fails, and otherwise goes on
\* to its insert with what it has read.
create_relationship_check(n, tok, source_id, target_id) ==
  LET a == auth_required(tok, "none")
      d == a.db
      sys == CallerSystem(d, a.user_id)
      status == IF a.status # 200 THEN a.status
                ELSE IF sys = None THEN 404
                ELSE IF PartById(PartsOf(d.parts, sys), source_id) = {} THEN 404
                ELSE IF PartById(PartsOf(d.parts, sys), target_id) = {} THEN 404
                ELSE IF RelationshipsOfTriple(d.relationships, source_id, target_id, sys) # {}
                THEN 400
                ELSE 0
  IN
  /\ SetDB(d)
  /\ inflight' = IF status = 0
                 THEN Started(n, [op |-> "create_relationship", user |-> tok,
                                  source_id |-> source_id, target_id |-> target_id,
                                  system_id |-> sys])
                 ELSE inflight
  /\ resp' = [op |-> "create_relationship_check", user |-> tok, status |-> status,
              source_id |-> source_id, target_id |-> target_id, system_id |-> sys]
  /\ UNCHANGED <<config_vars, tokens, provider_reachable, today, llm_calls, environ>>

\* db.session.add(relationship); db.session.commit() (lines 95-110).  The
\* table has a primary key and three foreign keys and no unique constraint
\* on (part1_id, part2_id, system_id): the insert is refused only when a
\* referenced part is gone.
create_relationship_insert(n) ==
  LET q == inflight[n]
      row == Relationship(FreshRelationshipId(relationships), q.source_id, q.target_id,
                          "protects", q.system_id)
      refused == PartById(parts, q.source_id) = {} \/ PartById(parts, q.target_id) = {}
  IN
  /\ q.op = "create_relationship"
  /\ relationships' = IF refused THEN relationships ELSE relationships \cup {row}
  /\ inflight' = Finished(n)
  /\ resp' = [op |-> "create_relationship", user |-> q.user,
              status |-> IF refused THEN 500 ELSE 201,
              source_id |-> q.source_id, target_id |-> q.target_id,
              system_id |-> q.system_id, existed |-> FALSE]
  /\ UNCHANGED <<config_vars, tokens, provider_reachable, today, llm_calls, environ,
                 users, ifs_systems, parts, guided_sessions, session_messages, journals>>

\* --------------------------------------------------------- conversations.py
GuidedSession(id, user_id, system_id) ==
  [id |-> id, user_id |-> user_id, system_id |-> system_id, status |-> "active",
   topic |-> "none"]

SessionMessage(id, session_id, role) ==
  [id |-> id, session_id |-> session_id, role |-> role]

FreshSessionId(ss) == Min(SessionIds \ {x.id : x \in ss})
FreshMessageId(ms) == Min(MessageIds \ {m.id : m \in ms})

\* DBAdapter.create(session_messages, SessionMessage, data)
adapter_create_message(d, session_id, role) ==
  [d EXCEPT !.session_messages =
     d.session_messages \cup
       {SessionMessage(FreshMessageId(d.session_messages), session_id, role)}]

\* limit = 30 if user.subscription_tier == 'pro' else 10
MessageLimit(tier) == IF tier = "pro" THEN 30 ELSE 10

\* if user.daily_messages_used >= limit: ... 403
MessageLimitReached_strict(used, limit) == used > limit
MessageLimitReached(used, limit) == used >= limit

\* POST /guided-sessions.  fail: the insert the database refuses (the session
\* row, or the greeting message, whose failure the handler ignores).
create_guided_session(tok, fail, system_id, valid) ==
  LET a == auth_required(tok, fail)
      d == a.db
      uid == a.user_id
      user == d.users[uid]
      used_today == IF user.last_message_date = today
                    THEN user.daily_messages_used ELSE 0
      owned == \E x \in d.ifs_systems : x.id = system_id /\ x.user_id = uid
      sid == FreshSessionId(d.guided_sessions)
      d1 == [d EXCEPT !.guided_sessions =
                        d.guided_sessions \cup {GuidedSession(sid, uid, system_id)}]
      d2 == IF LLM_AVAILABLE /\ fail # "greeting"
            THEN adapter_create_message(d1, sid, "guide") ELSE d1
      out == IF a.status # 200 THEN [status |-> a.status, db |-> d]
             ELSE IF uid \notin DOMAIN d.users THEN [status |-> 404, db |-> d]
             ELSE IF /\ user.subscription_tier # "unlimited"
                     /\ MessageLimitReached(used_today,
                                            MessageLimit(user.subscription_tier))
             THEN [status |-> 403, db |-> d]
             ELSE IF ~valid THEN [status |-> 400, db |-> d]
             ELSE IF ~owned THEN [status |-> 403, db |-> d]
             ELSE IF fail = "session" THEN [status |-> 500, db |-> d]
             ELSE [status |-> 201, db |-> d2]
  IN
  /\ SetDB(out.db)
  /\ resp' = [op |-> "create_guided_session", user |-> tok, status |-> out.status]
  /\ UNCHANGED <<config_vars, tokens, world_vars>>

\* DBAdapter.get_all(table, model_class, filter_dict) has no order_by and no
\* limit parameter; the handler's call for the recent messages passes both,
\* so the call raises TypeError before the method body runs.
get_all_takes_ordering == FALSE

\* The guide-response step of add_session_message: the text of the guide
\* message, whether the inference API was called, whether the counter is
\* incremented.  llm: what the inference call would do (a reply, an "Error:"
\* text that LLMService returns instead of raising, or an exception).
\* How a call of DBAdapter.get_all ends for its caller: every method body of
\* the adapter is one try/except that returns a value, so a call that binds
\* to the signature returns a list; a call with the keywords order_by and
\* limit does not bind and raises TypeError in the caller.
get_all_call(ordered) ==
  IF ordered /\ ~get_all_takes_ordering THEN "TypeError" ELSE "list"

\* history: how the get_all call for the recent messages ended.
GuideStep(llm) ==
  LET history == get_all_call(TRUE) IN
  IF ~LLM_AVAILABLE
  THEN [content |-> "unavailable", called |-> FALSE, charged |-> FALSE,
        history |-> "not_called"]
  ELSE IF history = "TypeError"
  THEN [content |-> "apology", called |-> FALSE, charged |-> FALSE, history |-> history]
  ELSE IF llm = "raises"
  THEN [content |-> "apology", called |-> TRUE, charged |-> FALSE, history |-> history]
  ELSE [content |-> llm, called |-> TRUE, charged |-> TRUE, history |-> history]

LlmOutcomes == {"reply", "error_text", "raises"}

\* POST /guided-sessions/<session_id>/messages.  fail: the insert the database
\* refuses (the user message or the guide message).  The ORM arm of
\* DBAdapter.create commits the session, and with it the pending reset of the
\* user's counter; the REST arm leaves the pending reset to the final commit.
add_session_message(tok, fail, session_id, valid, llm) ==
  LET a == auth_required(tok, fail)
      d == a.db
      uid == a.user_id
      user == d.users[uid]
      owned == \E x \in d.guided_sessions : x.id = session_id /\ x.user_id = uid
      guarded == user.subscription_tier # "unlimited"
      rolled == guarded /\ user.last_message_date # today
      user1 == IF rolled
               THEN [user EXCEPT !.daily_messages_used = 0, !.last_message_date = today]
               ELSE user
      d_reset == [d EXCEPT !.users = [d.users EXCEPT ![uid] = user1]]
      g == GuideStep(llm)
      user2 == IF guarded /\ g.charged
               THEN [user1 EXCEPT !.daily_messages_used = @ + 1]
               ELSE user1
      d_msg == adapter_create_message(IF using_supabase THEN d ELSE d_reset,
                                      session_id, "user")
      d_all == adapter_create_message(
                 [d_msg EXCEPT !.users = [d.users EXCEPT ![uid] = user2]],
                 session_id, "guide")
      out == IF a.status # 200
             THEN [status |-> a.status, db |-> d, guide |-> "none", called |-> FALSE,
                   history |-> "not_called"]
             ELSE IF uid \notin DOMAIN d.users \/ ~owned
             THEN [status |-> 404, db |-> d, guide |-> "none", called |-> FALSE,
                   history |-> "not_called"]
             ELSE IF /\ guarded
                     /\ MessageLimitReached(user1.daily_messages_used,
                                            MessageLimit(user.subscription_tier))
             THEN [status |-> 403, db |-> d_reset, guide |-> "none", called |-> FALSE,
                   history |-> "not_called"]
             ELSE IF ~valid
             THEN [status |-> 400, db |-> d, guide |-> "none", called |-> FALSE,
                   history |-> "not_called"]
             ELSE IF fail = "user_message"
             THEN [status |-> 500, db |-> d, guide |-> "none", called |-> FALSE,
                   history |-> "not_called"]
             ELSE IF fail = "guide_message"
             THEN [status |-> 500, db |-> d_msg, guide |-> "none", called |-> g.called,
                   history |-> g.history]
             ELSE [status |-> 201, db |-> d_all, guide |-> g.content, called |-> g.called,
                   history |-> g.history]
  IN
  /\ SetDB(out.db)
  /\ llm_calls' = IF out.called THEN llm_calls + 1 ELSE llm_calls
  /\ resp' = [op |-> "add_session_message", user |-> tok, status |-> out.status,
              session_id |-> session_id, guide |-> out.guide, history |-> out.history]
  /\ UNCHANGED <<config_vars, tokens, provider_reachable, today, inflight, environ>>

\* session = get_by_id(...);
\* if not session or str(session.get('user_id')) != str(user_id): ... 404
SessionOwnedBy_any(d, session_id, uid) ==
  \E x \in d.guided_sessions : x.id = session_id
SessionOwnedBy(d, session_id, uid) ==
  \E x \in d.guided_sessions : x.id = session_id /\ x.user_id = uid

\* GET /guided-sessions/<session_id>: the session with its messages.
get_guided_session(tok, fail, session_id) ==
  LET a == auth_required(tok, fail)
      d == a.db
      owned == a.status = 200 /\ SessionOwnedBy(d, session_id, a.user_id)
  IN
  /\ SetDB(d)
  /\ resp' = [op |-> "get_guided_session", user |-> tok,
              status |-> IF a.status # 200 THEN a.status
                         ELSE IF owned THEN 200 ELSE 404,
              session_id |-> session_id,
              data |-> IF owned
                       THEN {x \in d.guided_sessions : x.id = session_id}
                            \cup {m \in d.session_messages : m.session_id = session_id}
                       ELSE {}]
  /\ UNCHANGED <<config_vars, tokens, world_vars>>

\* What request.json and UpdateSessionSchema().load make of the body: a
\* valid update, a validation error (400), or a body that is not JSON (the
\* exception is caught by the handler's last except: 500).
Bodies == {"valid", "invalid", "not_json"}
SessionStatuses == {"active", "archived"}

\* if session_messages and len(session_messages) > 1
EnoughMessages(n) == n > 1

\* The topic the update writes: the keywords generate_keywords extracts from
\* the session's messages when there are enough of them and their text yields
\* any (extractable), and the stored topic otherwise.
GeneratedTopic(d, session_id, extractable, topic) ==
  LET n == Cardinality({m \in d.session_messages : m.session_id = session_id}) IN
  IF EnoughMessages(n) /\ extractable THEN "keywords" ELSE topic

\* PUT /guided-sessions/<session_id>: the body is parsed and validated before
\* the session is looked up.  fail = "session": the adapter's update is
\* refused and returns None.
update_guided_session(tok, fail, session_id, body, status, extractable) ==
  LET a == auth_required(tok, fail)
      d == a.db
      d1 == [d EXCEPT !.guided_sessions =
               {IF x.id = session_id
                THEN [x EXCEPT !.status = status,
                               !.topic = GeneratedTopic(d, session_id, extractable, @)]
                ELSE x
                  : x \in d.guided_sessions}]
      out == IF a.status # 200 THEN [status |-> a.status, db |-> d]
             ELSE IF body = "not_json" THEN [status |-> 500, db |-> d]
             ELSE IF body = "invalid" THEN [status |-> 400, db |-> d]
             ELSE IF ~SessionOwnedBy(d, session_id, a.user_id)
             THEN [status |-> 404, db |-> d]
             ELSE IF fail = "session" THEN [status |-> 500, db |-> d]
             ELSE [status |-> 200, db |-> d1]
  IN
  /\ SetDB(out.db)
  /\ resp' = [op |-> "update_guided_session", user |-> tok, status |-> out.status,
              session_id |-> session_id, body |-> body, extractable |-> extractable,
              data |-> IF out.status = 200
                       THEN {x \in d1.guided_sessions : x.id = session_id} ELSE {}]
  /\ UNCHANGED <<config_vars, tokens, world_vars>>

\* DELETE /guided-sessions/<session_id>: session_messages.session_id
\* references guided_sessions.id ON DELETE CASCADE.
delete_guided_session(tok, fail, session_id) ==
  LET a == auth_required(tok, fail)
      d == a.db
      d1 == [d EXCEPT !.guided_sessions = {x \in d.guided_sessions : x.id # session_id},
                      !.session_messages =
                         {m \in d.session_messages : m.session_id # session_id}]
      out == IF a.status # 200 THEN [status |-> a.status, db |-> d]
             ELSE IF ~SessionOwnedBy(d, session_id, a.user_id)
             THEN [status |-> 404, db |-> d]
             ELSE IF fail = "session" THEN [status |-> 500, db |-> d]
             ELSE [status |-> 200, db |-> d1]
  IN
  /\ SetDB(out.db)
  /\ resp' = [op |-> "delete_guided_session", user |-> tok, status |-> out.status,
              session_id |-> session_id, data |-> {}]
  /\ UNCHANGED <<config_vars, tokens, world_vars>>

\* ------------------------------------------------------------- journals.py
\* A journals row: its system, the part it is about (nullable) and the day
\* of its created_at timestamp.
Journal(id, system_id, part_id, day) ==
  [id |-> id, system_id |-> system_id, part_id |-> part_id, day |-> day]

FreshJournalId(js) == Min(JournalIds \ {j.id : j \in js})

\* limit = 10 if user.subscription_tier == 'pro' else 1
JournalLimit(tier) == IF tier = "pro" THEN 10 ELSE 1

\* if user.daily_journals_used >= limit: ... 403
JournalLimitReached_strict(used, limit) == used > limit
JournalLimitReached(used, limit) == used >= limit

\* db.session.commit() of create_journal: the user row (reset and increment)
\* and the new journal row are written by one transaction.
commit_journal_row_only(d, uid, user1, row) ==
  [d EXCEPT !.journals = d.journals \cup {row}]
commit_journal(d, uid, user1, row) ==
  [d EXCEPT !.users = [d.users EXCEPT ![uid] = user1],
            !.journals = d.journals \cup {row}]

\* POST /journals.  The counter reset is pending in the session until the
\* single commit at the end; every early return leaves the database as it
\* was.  fail: the database refuses the insert of the journal row.
create_journal(tok, fail, valid, part_id) ==
  LET a == auth_required(tok, fail)
      d == a.db
      uid == a.user_id
      user == d.users[uid]
      system == FirstSystemOf(d.ifs_systems, uid)
      guarded == user.subscription_tier # "unlimited"
      used0 == IF user.last_journal_date # today THEN 0 ELSE user.daily_journals_used
      user1 == IF guarded
               THEN [user EXCEPT !.daily_journals_used = used0 + 1,
                                 !.last_journal_date = today]
               ELSE user
      row == Journal(FreshJournalId(d.journals), system.id, part_id, today)
      d1 == commit_journal(d, uid, user1, row)
      out == IF a.status # 200 THEN [status |-> a.status, db |-> d]
             ELSE IF uid \notin DOMAIN d.users THEN [status |-> 404, db |-> d]
             ELSE IF SystemsOf(d.ifs_systems, uid) = {} THEN [status |-> 404, db |-> d]
             ELSE IF /\ guarded
                     /\ JournalLimitReached(used0, JournalLimit(user.subscription_tier))
             THEN [status |-> 403, db |-> d]
             ELSE IF ~valid THEN [status |-> 400, db |-> d]
             ELSE IF /\ part_id # None
                     /\ ~\E p \in d.parts : p.id = part_id /\ p.system_id = system.id
             THEN [status |-> 404, db |-> d]
             ELSE IF fail = "journal" THEN [status |-> 500, db |-> d]
             ELSE [status |-> 201, db |-> d1]
  IN
  /\ SetDB(out.db)
  /\ resp' = [op |-> "create_journal", user |-> tok, status |-> out.status]
  /\ UNCHANGED <<config_vars, tokens, world_vars>>

\* create_journal served at the same time as other requests.  The first step
\* is the handler up to the end of its limit check (lines 63-99): the user row
\* is loaded into the request's session and the reset is applied to that copy.
\* used: daily_journals_used of the copy after the reset; day: date.today()
\* as the limit check read it.
create_journal_read(n, tok) ==
  LET a == auth_required(tok, "none")
      d == a.db
      uid == a.user_id
      user == d.users[uid]
      guarded == user.subscription_tier # "unlimited"
      used0 == IF user.last_journal_date # today THEN 0 ELSE user.daily_journals_used
      status == IF a.status # 200 THEN a.status
                ELSE IF uid \notin DOMAIN d.users THEN 404
                ELSE IF SystemsOf(d.ifs_systems, uid) = {} THEN 404
                ELSE IF /\ guarded
                        /\ JournalLimitReached(used0, JournalLimit(user.subscription_tier))
                THEN 403
                ELSE 0
  IN
  /\ SetDB(d)
  /\ inflight' = IF status = 0
                 THEN Started(n, [op |-> "create_journal", user |-> uid,
                                  guarded |-> guarded, used |-> used0,
                                  day |-> today])
                 ELSE inflight
  /\ resp' = [op |-> "create_journal_read", user |-> tok, status |-> status]
  /\ UNCHANGED <<config_vars, tokens, provider_reachable, today, llm_calls, environ>>

\* The second step is the rest of the handler (lines 101-149): validation,
\* the new row, user.daily_journals_used += 1 on the session's copy and the
\* commit, which writes the copy's value to the row whatever the row holds
\* by then.
create_journal_write_increment(committed, q) == committed + 1
create_journal_write(committed, q) == q.used + 1

create_journal_commit(n, fail, valid) ==
  LET q == inflight[n]
      uid == q.user
      user == users[uid]
      user1 == IF q.guarded
               THEN [user EXCEPT !.daily_journals_used =
                                   create_journal_write(user.daily_journals_used, q),
                                 !.last_journal_date = q.day]
               ELSE user
      row == Journal(FreshJournalId(journals), FirstSystemOf(ifs_systems, uid).id,
                     None, today)
      status == IF ~valid THEN 400 ELSE IF fail = "journal" THEN 500 ELSE 201
  IN
  /\ q.op = "create_journal"
  /\ SetDB(IF status = 201 THEN commit_journal(DB, uid, user1, row) ELSE DB)
  /\ inflight' = Finished(n)
  /\ resp' = [op |-> "create_journal", user |-> uid, status |-> status,
              read |-> q.used, others |-> {inflight[k].used : k \in DOMAIN inflight \ {n}}]
  /\ UNCHANGED <<config_vars, tokens, provider_reachable, today, llm_calls, environ>>

\* -------------------------------------------------------------- billing.py
\* stripe.Webhook.construct_event(payload, sig_header, webhook_secret): the
\* ways a delivery can arrive, and the one in which the signature verifies.
Deliveries ==
  {"no_payload", "no_signature", "bad_payload", "bad_signature",
   "construct_error", "verified"}

SignatureVerifies_lax(delivery) == delivery \in {"verified", "bad_signature"}
SignatureVerifies(delivery) == delivery = "verified"

\* users.stripe_customer_id and users.stripe_subscription_id are unique.
StripeIdsUnique(us) ==
  \A u, v \in DOMAIN us :
    u # v => /\ \/ us[u].stripe_customer_id = None
                \/ us[u].stripe_customer_id # us[v].stripe_customer_id
             /\ \/ us[u].stripe_subscription_id = None
                \/ us[u].stripe_subscription_id # us[v].stripe_subscription_id

\* query(User).filter(...).first(): the lowest matching id, None when no row.
FirstUser(S) == IF S = {} THEN None ELSE Min(S)
UserByCustomer(us, cust) ==
  FirstUser({u \in DOMAIN us : cust # None /\ us[u].stripe_customer_id = cust})
UserBySubscription(us, sub) ==
  FirstUser({u \in DOMAIN us : us[u].stripe_subscription_id = sub})

\* db.session.commit() of one changed row; a violated unique constraint
\* raises, the handler rolls back and answers 500.
CommitUser(us, u, row) ==
  LET us1 == [us EXCEPT ![u] = row] IN
  IF StripeIdsUnique(us1)
  THEN [status |-> 200, users |-> us1, matched |-> u]
  ELSE [status |-> 500, users |-> us, matched |-> u]

Unmatched(us, status) == [status |-> status, users |-> us, matched |-> None]

\* checkout.session.completed.  ev.price: the tier the subscription's price
\* maps to, "unknown", or "stripe_error" when Subscription.retrieve raises.
checkout_completed(us, ev) ==
  IF ev.user_id = None THEN Unmatched(us, 400)
  ELSE IF ev.customer = None \/ ev.subscription = None THEN Unmatched(us, 400)
  ELSE IF ev.price = "stripe_error" THEN Unmatched(us, 500)
  ELSE IF ev.price = "unknown" THEN Unmatched(us, 400)
  ELSE IF ev.user_id \notin DOMAIN us THEN Unmatched(us, 404)
  ELSE CommitUser(us, ev.user_id,
                  [us[ev.user_id] EXCEPT !.stripe_customer_id = ev.customer,
                                         !.stripe_subscription_id = ev.subscription,
                                         !.subscription_tier = ev.price,
                                         !.subscription_status = "active"])

\* customer.subscription.updated.  ev.price is "none" when the event carries
\* no items.
subscription_updated(us, ev) ==
  LET by_cust == UserByCustomer(us, ev.customer)
      u == IF by_cust # None \/ ev.subscription = None
           THEN by_cust ELSE UserBySubscription(us, ev.subscription)
      inactive == ev.status \notin {"active", "trialing"}
      new_tier == IF ev.price \in {"pro", "unlimited"} THEN ev.price
                  ELSE IF ev.price = "unknown" /\ (ev.status # "active" \/ ev.cancel_at_period_end)
                  THEN "free"
                  ELSE us[u].subscription_tier
      row == [us[u] EXCEPT
                !.subscription_status =
                   IF ev.cancel_at_period_end THEN "active_until_period_end"
                   ELSE ev.status,
                !.subscription_tier =
                   IF ev.cancel_at_period_end \/ ~inactive THEN new_tier ELSE "free",
                !.stripe_subscription_id =
                   IF ev.status = "canceled" THEN None ELSE ev.subscription,
                !.stripe_customer_id = ev.customer]
  IN IF u = None THEN Unmatched(us, 200) ELSE CommitUser(us, u, row)

\* The row a customer.subscription.deleted event leaves: free tier, status
\* canceled, no subscription id, the customer id kept.
CanceledRow_keeps_subscription(row) ==
  [row EXCEPT !.subscription_tier = "free", !.subscription_status = "canceled"]
CanceledRow(row) ==
  [row EXCEPT !.subscription_tier = "free", !.subscription_status = "canceled",
              !.stripe_subscription_id = None]

\* customer.subscription.deleted
subscription_deleted_strict(us, ev) ==
  LET u == UserBySubscription(us, ev.subscription) IN
  IF u = None THEN Unmatched(us, 404) ELSE CommitUser(us, u, CanceledRow(us[u]))
subscription_deleted(us, ev) ==
  LET u == UserBySubscription(us, ev.subscription) IN
  IF u = None THEN Unmatched(us, 200) ELSE CommitUser(us, u, CanceledRow(us[u]))

\* invoice.paid and invoice.payment_failed: the status the customer's row gets.
invoice_event(us, ev, status) ==
  LET u == UserByCustomer(us, ev.customer) IN
  IF u = None THEN Unmatched(us, 200)
  ELSE IF us[u].subscription_status = status
  THEN [status |-> 200, users |-> us, matched |-> u]
  ELSE CommitUser(us, u, [us[u] EXCEPT !.subscription_status = status])

handle_event(us, ev) ==
  IF ev.type = "checkout.session.completed" THEN checkout_completed(us, ev)
  ELSE IF ev.type = "customer.subscription.updated" THEN subscription_updated(us, ev)
  ELSE IF ev.type = "customer.subscription.deleted" THEN subscription_deleted(us, ev)
  ELSE IF ev.type = "invoice.paid" THEN invoice_event(us, ev, "active")
  ELSE IF ev.type = "invoice.payment_failed" THEN invoice_event(us, ev, "payment_failed")
  ELSE Unmatched(us, 200)

\* POST /webhook/stripe
\* The response record keeps what the handler logs: the event type once
\* construct_event returned it, the subscription id of a deletion event, the
\* status and cancel_at_period_end of an update event and the user row it
\* found.
stripe_webhook(delivery, ev) ==
  LET constructed == /\ webhook_secret
                     /\ delivery \notin {"no_payload", "no_signature"}
                     /\ SignatureVerifies(delivery)
      out == IF ~webhook_secret THEN Unmatched(users, 500)
             ELSE IF delivery \in {"no_payload", "no_signature"} THEN Unmatched(users, 400)
             ELSE IF constructed THEN handle_event(users, ev)
             ELSE IF delivery = "construct_error" THEN Unmatched(users, 500)
             ELSE Unmatched(users, 400)
  IN
  /\ users' = out.users
  /\ resp' = [op |-> "stripe_webhook", user |-> out.matched, status |-> out.status,
              delivery |-> delivery,
              type |-> IF constructed THEN ev.type ELSE "none",
              deleted |-> IF constructed /\ ev.type = "customer.subscription.deleted"
                          THEN ev.subscription ELSE None,
              new_status |-> IF constructed /\ ev.type = "customer.subscription.updated"
                             THEN ev.status ELSE "none",
              cancel_at_period_end |->
                 constructed /\ ev.type = "customer.subscription.updated"
                 /\ ev.cancel_at_period_end]
  /\ UNCHANGED <<config_vars, tokens, world_vars, ifs_systems, parts,
                 guided_sessions, session_messages, journals, relationships>>

\* Midnight passes.
Tick ==
  /\ today < MaxDay
  /\ today' = today + 1
  /\ resp' = [op |-> "tick", user |-> None, status |-> 0]
  /\ UNCHANGED <<config_vars, tokens, db_vars, provider_reachable, llm_calls, inflight, environ>>

\* ------------------------------------------------------------ specification
NoRequest == [op |-> "none", user |-> None, status |-> 0]

\* A fresh deployment: an empty database, either backend for auth and data.
Init ==
  /\ use_supabase_auth \in BOOLEAN
  /\ using_supabase \in BOOLEAN
  /\ supabase_available = TRUE
  /\ provider_reachable = TRUE
  /\ LLM_AVAILABLE = TRUE
  /\ webhook_secret = TRUE
  /\ tokens = {}
  /\ users = <<>>
  /\ ifs_systems = {}
  /\ parts = {}
  /\ guided_sessions = {}
  /\ session_messages = {}
  /\ journals = {}
  /\ relationships = {}
  /\ today = 1
  /\ llm_calls = 0
  /\ inflight = <<>>
  /\ environ = <<>>
  /\ resp = NoRequest

\* Inputs of a request: a bearer token (None: no Authorization header), the
\* write the database refuses, a part id (the existing ones and a missing one)
\* and a system id (likewise).
Tokens == UserIds \cup tokens \cup {None}
Fails == IF use_supabase_auth THEN FailPoints ELSE {"none"}
SomePartIds == {p.id : p \in parts} \cup {FreshPartId(parts)}
SomeSystemIds == {s.id : s \in ifs_systems} \cup {FreshSystemId(ifs_systems)}

\* Each request may add one system row and two part rows.
Room(maxparts) ==
  /\ Cardinality(ifs_systems) < MaxSystems
  /\ Cardinality(parts) < maxparts

Register ==
  /\ Room(MaxParts)
  /\ \E u \in UserIds, fail \in {"none", "system"} :
       \E signup \in IF use_supabase_auth /\ u \in tokens
                      THEN SignupOutcomes ELSE {"raises"} :
         register(u, fail, signup)

GetSystem ==
  /\ Room(MaxParts)
  /\ \E tok \in Tokens, fail \in FailPoints : get_system(tok, fail)

ResetSystem ==
  /\ Room(MaxParts)
  /\ \E tok \in Tokens, fail \in Fails, legacy \in BOOLEAN : reset_system(tok, fail, legacy)

GetParts ==
  /\ Room(MaxParts)
  /\ \E tok \in Tokens, fail \in Fails : get_parts(tok, fail)

CreatePart ==
  /\ Room(MaxParts)
  /\ \E tok \in Tokens, fail \in Fails, sid \in SomeSystemIds,
        name \in PartNames, role \in PartRoles :
       create_part(tok, fail, sid, name, role)

UpdatePart ==
  /\ Room(MaxParts)
  /\ \E tok \in Tokens, fail \in Fails, pid \in SomePartIds,
        name \in PartNames, role \in PartRoles :
       update_part(tok, fail, pid, name, role)

DeletePart ==
  /\ Room(MaxParts)
  /\ \E tok \in Tokens, fail \in Fails, pid \in SomePartIds : delete_part(tok, fail, pid)

Next ==
  \/ Register
  \/ GetSystem
  \/ ResetSystem
  \/ GetParts
  \/ CreatePart
  \/ UpdatePart
  \/ DeletePart

Spec == Init /\ [][Next]_vars

\* A deployment whose database already holds one account with its system,
\* Self part and a guided session; the account's tier and message counter are
\* whatever earlier days left in the row.  The deployment is hosted (Supabase
\* for auth and data) or local (JWT and the ORM).
SeedUsed(t) == {0} \cup {MessageLimit(t) + k : k \in {-1, 0, 1}}

InitMessages ==
  /\ using_supabase \in BOOLEAN
  /\ use_supabase_auth = using_supabase
  /\ supabase_available = TRUE
  /\ provider_reachable = TRUE
  /\ LLM_AVAILABLE \in BOOLEAN
  /\ webhook_secret = TRUE
  /\ tokens = {1}
  /\ \E t \in Tiers : \E used \in SeedUsed(t), last \in {None, 1} :
       users = (1 :> [User(1) EXCEPT !.subscription_tier = t,
                                     !.daily_messages_used = used,
                                     !.last_message_date = last])
  /\ ifs_systems = {IFSSystem(1, 1)}
  /\ parts = {Part(1, 1, "Self", "Self")}
  /\ guided_sessions = {GuidedSession(1, 1, 1)}
  /\ session_messages = {}
  /\ journals = {}
  /\ relationships = {}
  /\ today = 1
  /\ llm_calls = 0
  /\ inflight = <<>>
  /\ environ = <<>>
  /\ resp = NoRequest

SomeSessionIds == {x.id : x \in guided_sessions} \cup {MaxSessions + 1}

\* A request with an invalid body ends before its first insert, and what the
\* inference call answers matters only where the handler makes the call.
FailsIf(valid, points) == IF valid THEN {"none"} \cup points ELSE {"none"}
LlmInputs ==
  IF LLM_AVAILABLE /\ get_all_takes_ordering THEN LlmOutcomes ELSE {"raises"}

CreateGuidedSession ==
  /\ Cardinality(guided_sessions) < MaxSessions
  /\ Cardinality(session_messages) < MaxMessages
  /\ \E tok \in tokens \cup {None}, valid \in BOOLEAN :
       \E sid \in SomeSystemIds, fail \in FailsIf(valid, {"session", "greeting"}) :
         create_guided_session(tok, fail, sid, valid)

AddSessionMessage ==
  /\ Cardinality(session_messages) < MaxMessages
  /\ \E tok \in tokens \cup {None}, valid \in BOOLEAN :
       \E sess \in SomeSessionIds, llm \in LlmInputs,
          fail \in FailsIf(valid, {"user_message", "guide_message"}) :
         add_session_message(tok, fail, sess, valid, llm)

NextMessages ==
  \/ CreateGuidedSession
  \/ AddSessionMessage
  \/ Tick

SpecMessages == InitMessages /\ [][NextMessages]_vars

\* A deployment (hosted or local) with one registered account of some tier
\* that has not written a journal yet.
InitJournals ==
  /\ using_supabase \in BOOLEAN
  /\ use_supabase_auth = using_supabase
  /\ supabase_available = TRUE
  /\ provider_reachable = TRUE
  /\ LLM_AVAILABLE = TRUE
  /\ webhook_secret = TRUE
  /\ tokens = {1}
  /\ \E t \in Tiers : users = (1 :> [User(1) EXCEPT !.subscription_tier = t])
  /\ ifs_systems = {IFSSystem(1, 1)}
  /\ parts = {Part(1, 1, "Self", "Self")}
  /\ guided_sessions = {}
  /\ session_messages = {}
  /\ journals = {}
  /\ relationships = {}
  /\ today = 1
  /\ llm_calls = 0
  /\ inflight = <<>>
  /\ environ = <<>>
  /\ resp = NoRequest

\* Journals about no part, or about a part that does not exist.
CreateJournal ==
  /\ Cardinality(journals) < MaxJournals
  /\ \E tok \in tokens \cup {None}, valid \in BOOLEAN :
       \E part_id \in {None, FreshPartId(parts)}, fail \in FailsIf(valid, {"journal"}) :
         create_journal(tok, fail, valid, part_id)

NextJournals ==
  \/ CreateJournal
  \/ Tick

SpecJournals == InitJournals /\ [][NextJournals]_vars

\* A local deployment, with or without a configured webhook secret, in which
\* two accounts have registered.
InitBilling ==
  /\ use_supabase_auth = FALSE
  /\ using_supabase = FALSE
  /\ supabase_available = TRUE
  /\ provider_reachable = TRUE
  /\ LLM_AVAILABLE = TRUE
  /\ webhook_secret \in BOOLEAN
  /\ tokens = {1, 2}
  /\ users = (1 :> User(1)) @@ (2 :> User(2))
  /\ ifs_systems = {IFSSystem(1, 1), IFSSystem(2, 2)}
  /\ parts = {Part(1, 1, "Self", "Self"), Part(2, 2, "Self", "Self")}
  /\ guided_sessions = {}
  /\ session_messages = {}
  /\ journals = {}
  /\ relationships = {}
  /\ today = 1
  /\ llm_calls = 0
  /\ inflight = <<>>
  /\ environ = <<>>
  /\ resp = NoRequest

\* The events Stripe (or whoever posts to the endpoint) can send: each type
\* with the fields its branch of the handler reads.
BlankEvent ==
  [type |-> "other", user_id |-> None, customer |-> None, subscription |-> None,
   status |-> "active", cancel_at_period_end |-> FALSE, price |-> "none"]

Events ==
  {BlankEvent, [BlankEvent EXCEPT !.type = "customer.subscription.created"]}
  \cup {[BlankEvent EXCEPT !.type = "checkout.session.completed", !.user_id = u,
                           !.customer = c, !.subscription = sub, !.price = p] :
          u \in DOMAIN users \cup {Cardinality(DOMAIN users) + 1},
          c \in StripeIds, sub \in StripeIds,
          p \in {"pro", "unlimited", "unknown", "stripe_error"}}
  \cup {[BlankEvent EXCEPT !.type = "checkout.session.completed", !.user_id = u,
                           !.customer = c, !.price = "pro"] :
          u \in {1, None}, c \in StripeIds}
  \cup {[BlankEvent EXCEPT !.type = "customer.subscription.updated",
                           !.customer = c, !.subscription = sub, !.status = st,
                           !.cancel_at_period_end = cape, !.price = p] :
          c \in StripeIds, sub \in StripeIds, st \in {"active", "past_due", "canceled"},
          cape \in BOOLEAN, p \in {"pro", "unknown", "none"}}
  \cup {[BlankEvent EXCEPT !.type = "customer.subscription.deleted",
                           !.subscription = sub] : sub \in StripeIds}
  \cup {[BlankEvent EXCEPT !.type = t, !.customer = c] :
          t \in {"invoice.paid", "invoice.payment_failed"},
          c \in StripeIds \cup {None}}

\* A delivery the endpoint refuses, carrying an event that would change a row
\* if it were handled, and a delivery signed by Stripe.
ForgedEvents ==
  {ev \in Events : ev.type \in {"customer.subscription.deleted", "invoice.payment_failed"}}

StripeWebhookRefused ==
  /\ resp.op \in {"none", "stripe_webhook"}
  /\ \E delivery \in Deliveries \ {"verified"}, ev \in ForgedEvents :
       stripe_webhook(delivery, ev)

StripeWebhookSigned ==
  /\ resp.op \in {"none", "stripe_webhook"}
  /\ \E ev \in Events : stripe_webhook("verified", ev)

NextBilling ==
  \/ StripeWebhookRefused
  \/ StripeWebhookSigned

SpecBilling == InitBilling /\ [][NextBilling]_vars

\* A deployment that took over the database of an earlier local one.  The
\* database is empty, or holds the row of a user who registered locally under
\* address 1 (a local id no provider account has), with or without their
\* system.  In hosted mode the provider client may be missing, the provider
\* may stop answering, and the user has a provider account under address 1.
LegacyId == MaxUsers + 1
Seeds == {"empty", "row", "row_system"}

InitAuth ==
  /\ use_supabase_auth \in BOOLEAN
  /\ supabase_available \in (IF use_supabase_auth THEN BOOLEAN ELSE {FALSE})
  /\ using_supabase = FALSE
  /\ provider_reachable = TRUE
  /\ LLM_AVAILABLE = TRUE
  /\ webhook_secret = TRUE
  /\ \E seed \in Seeds :
       /\ users = IF seed = "empty" THEN <<>> ELSE (LegacyId :> User(1))
       /\ ifs_systems = IF seed = "row_system" THEN {IFSSystem(1, LegacyId)} ELSE {}
       /\ parts = IF seed = "row_system" THEN {Part(1, 1, "Self", "Self")} ELSE {}
       /\ tokens = IF seed = "empty" THEN {}
                   ELSE IF use_supabase_auth THEN {1} ELSE {LegacyId}
  /\ guided_sessions = {}
  /\ session_messages = {}
  /\ journals = {}
  /\ relationships = {}
  /\ today = 1
  /\ llm_calls = 0
  /\ inflight = <<>>
  /\ environ = <<>>
  /\ resp = NoRequest

\* The hosted provider stops or resumes answering.
NetworkChange ==
  /\ use_supabase_auth /\ supabase_available
  /\ provider_reachable' = ~provider_reachable
  /\ resp' = [op |-> "network", user |-> None, status |-> 0]
  /\ UNCHANGED <<config_vars, tokens, db_vars, today, llm_calls, inflight, environ>>

Login ==
  \E u \in UserIds, correct \in BOOLEAN : login(u, correct)

NextAuth ==
  \/ Register
  \/ Login
  \/ GetSystem
  \/ GetParts
  \/ DeletePart
  \/ NetworkChange

SpecAuth == InitAuth /\ [][NextAuth]_vars

\* A deployment (hosted or local) with two accounts, each with its system and
\* Self part; the first owns a guided session that has one message.
InitSessions ==
  /\ using_supabase \in BOOLEAN
  /\ use_supabase_auth = using_supabase
  /\ supabase_available = TRUE
  /\ provider_reachable = TRUE
  /\ LLM_AVAILABLE = TRUE
  /\ webhook_secret = TRUE
  /\ tokens = {1, 2}
  /\ \E t \in {"free", "unlimited"} :
       users = (1 :> User(1)) @@ (2 :> [User(2) EXCEPT !.subscription_tier = t])
  /\ ifs_systems = {IFSSystem(1, 1), IFSSystem(2, 2)}
  /\ parts = {Part(1, 1, "Self", "Self"), Part(2, 2, "Self", "Self")}
  /\ guided_sessions = {GuidedSession(1, 1, 1)}
  /\ session_messages = {SessionMessage(1, 1, "guide")}
  /\ journals = {}
  /\ relationships = {}
  /\ today = 1
  /\ llm_calls = 0
  /\ inflight = <<>>
  /\ environ = <<>>
  /\ resp = NoRequest

GetGuidedSession ==
  \E tok \in tokens \cup {None}, sess \in SomeSessionIds :
    get_guided_session(tok, "none", sess)

UpdateGuidedSession ==
  \E tok \in tokens \cup {None}, sess \in SomeSessionIds, body \in Bodies :
    \E status \in SessionStatuses, fail \in FailsIf(body = "valid", {"session"}),
       extractable \in BOOLEAN :
      update_guided_session(tok, fail, sess, body, status, extractable)

DeleteGuidedSession ==
  \E tok \in tokens \cup {None}, sess \in SomeSessionIds, fail \in {"none", "session"} :
    delete_guided_session(tok, fail, sess)

NextSessions ==
  \/ GetGuidedSession
  \/ AddSessionMessage
  \/ UpdateGuidedSession
  \/ DeleteGuidedSession

SpecSessions == InitSessions /\ [][NextSessions]_vars

\* The requests of one user on the parts of their own system, every part
\* created as a manager: enough rows to reach the parts quota.
RegisterQ ==
  /\ Room(MaxPartRows)
  /\ register(1, "none", "raises")

CreatePartQ ==
  /\ Room(MaxPartRows)
  /\ \E sid \in SomeSystemIds : create_part(1, "none", sid, "Manager", "Protector")

DeletePartQ ==
  /\ Room(MaxPartRows)
  /\ \E pid \in SomePartIds : delete_part(1, "none", pid)

NextQuota ==
  \/ RegisterQ
  \/ CreatePartQ
  \/ DeletePartQ

SpecQuota == Init /\ [][NextQuota]_vars

\* The adapter's create and get_by_id on the parts table, in either backend.
InitRoundTrip ==
  /\ using_supabase \in BOOLEAN
  /\ use_supabase_auth = using_supabase
  /\ supabase_available = TRUE
  /\ provider_reachable = TRUE
  /\ LLM_AVAILABLE = FALSE
  /\ webhook_secret = TRUE
  /\ tokens = {1}
  /\ users = (1 :> User(1))
  /\ ifs_systems = {IFSSystem(1, 1)}
  /\ parts = {}
  /\ guided_sessions = {}
  /\ session_messages = {}
  /\ journals = {}
  /\ relationships = {}
  /\ today = 1
  /\ llm_calls = 0
  /\ inflight = <<>>
  /\ environ = <<>>
  /\ resp = NoRequest

\* create followed at once by get_by_id of the created row.
create_then_get(system_id, name, role, L, ok) ==
  LET c == adapter_create_feelings(DB, system_id, name, role, L, ok) IN
  /\ Cardinality(parts) < MaxParts
  /\ SetDB(c.db)
  /\ resp' = [op |-> "create_then_get", sent |-> L, id |-> c.id, created |-> c.feelings,
              fetched |-> IF c.id = None THEN PyNone ELSE adapter_get_feelings(c.db, c.id)]
  /\ UNCHANGED <<config_vars, tokens, world_vars>>

CreateThenGet ==
  \E L \in FeelingLists, ok \in BOOLEAN : create_then_get(1, "Manager", "Protector", L, ok)

get_by_id_part(id) ==
  /\ resp' = [op |-> "get_by_id", sent |-> <<>>, id |-> id, created |-> PyNone,
              fetched |-> adapter_get_feelings(DB, id)]
  /\ UNCHANGED <<config_vars, tokens, world_vars, db_vars>>

GetPartById == \E id \in 1..(MaxParts + 1) : get_by_id_part(id)

delete_part_row(id) ==
  /\ SetDB(adapter_delete_part(DB, id).db)
  /\ resp' = [op |-> "delete", sent |-> <<>>, id |-> id, created |-> PyNone, fetched |-> PyNone]
  /\ UNCHANGED <<config_vars, tokens, world_vars>>

DeletePartRow == \E id \in {p.id : p \in parts} : delete_part_row(id)

NextRoundTrip ==
  \/ CreateThenGet
  \/ GetPartById
  \/ DeletePartRow

SpecRoundTrip == InitRoundTrip /\ [][NextRoundTrip]_vars

\* A local deployment (JWT, ORM) with two accounts, each with its system and
\* Self part, serving the part and relationship requests of the first account
\* one at a time.
InitRelationships ==
  /\ use_supabase_auth = FALSE
  /\ using_supabase = FALSE
  /\ supabase_available = FALSE
  /\ provider_reachable = TRUE
  /\ LLM_AVAILABLE = FALSE
  /\ webhook_secret = TRUE
  /\ tokens = {1}
  /\ users = (1 :> User(1)) @@ (2 :> User(2))
  /\ ifs_systems = {IFSSystem(1, 1), IFSSystem(2, 2)}
  /\ parts = {Part(1, 1, "Self", "Self"), Part(2, 2, "Self", "Self")}
  /\ guided_sessions = {}
  /\ session_messages = {}
  /\ journals = {}
  /\ relationships = {}
  /\ today = 1
  /\ llm_calls = 0
  /\ inflight = <<>>
  /\ environ = <<>>
  /\ resp = NoRequest

RelFails == {"none", "relationship"}
SomeRelationshipIds ==
  {r.id : r \in relationships} \cup {FreshRelationshipId(relationships)}

CreatePartR ==
  /\ Cardinality(parts) < MaxRelParts
  /\ \E tok \in tokens, sid \in {s.id : s \in ifs_systems} :
       create_part(tok, "none", sid, "Manager", "Protector")

UpdatePartR ==
  \E tok \in tokens, pid \in SomePartIds : update_part(tok, "none", pid, "Manager", "Protector")

DeletePartR ==
  \E tok \in tokens, pid \in SomePartIds : delete_part(tok, "none", pid)

CreateRelationship ==
  /\ Cardinality(relationships) < MaxRelationships
  /\ \E tok \in tokens \cup {None}, fail \in RelFails, src \in SomePartIds,
        tgt \in SomePartIds, valid \in BOOLEAN :
       create_relationship(tok, fail, src, tgt, valid, "protects")

UpdateRelationship ==
  \E tok \in tokens, fail \in RelFails, rid \in SomeRelationshipIds, has_body \in BOOLEAN :
    update_relationship(tok, fail, rid, has_body, "conflicts")

DeleteRelationship ==
  \E tok \in tokens, fail \in RelFails, rid \in SomeRelationshipIds :
    delete_relationship(tok, fail, rid)

NextRelationships ==
  \/ CreatePartR
  \/ UpdatePartR
  \/ DeletePartR
  \/ CreateRelationship
  \/ UpdateRelationship
  \/ DeleteRelationship

SpecRelationships == InitRelationships /\ [][NextRelationships]_vars

\* The local deployment of InitRelationships with a second part in the first
\* account's system, serving up to MaxRequests create-relationship requests
\* at the same time.
InitRelRace ==
  /\ use_supabase_auth = FALSE
  /\ using_supabase = FALSE
  /\ supabase_available = FALSE
  /\ provider_reachable = TRUE
  /\ LLM_AVAILABLE = FALSE
  /\ webhook_secret = TRUE
  /\ tokens = {1}
  /\ users = (1 :> User(1)) @@ (2 :> User(2))
  /\ ifs_systems = {IFSSystem(1, 1), IFSSystem(2, 2)}
  /\ parts = {Part(1, 1, "Self", "Self"), Part(2, 2, "Self", "Self"),
              Part(3, 1, "Manager", "Protector")}
  /\ guided_sessions = {}
  /\ session_messages = {}
  /\ journals = {}
  /\ relationships = {}
  /\ today = 1
  /\ llm_calls = 0
  /\ inflight = <<>>
  /\ environ = <<>>
  /\ resp = NoRequest

CheckCreateRelationship ==
  /\ Cardinality(relationships) + Cardinality(DOMAIN inflight) < MaxRelationships
  /\ \E n \in FreeRequestIds, tok \in tokens \cup {None}, src \in SomePartIds,
        tgt \in SomePartIds :
       create_relationship_check(n, tok, src, tgt)

InsertRelationship == \E n \in DOMAIN inflight : create_relationship_insert(n)

DeleteRelationshipQuiet ==
  /\ inflight = <<>>
  /\ \E tok \in tokens, rid \in SomeRelationshipIds : delete_relationship(tok, "none", rid)

NextRelRace ==
  \/ CheckCreateRelationship
  \/ InsertRelationship
  \/ DeleteRelationshipQuiet

SpecRelRace == InitRelRace /\ [][NextRelRace]_vars

\* One account below the unlimited tier whose create-journal requests are
\* served at the same time: a free account with no journal yet, or a pro
\* account one journal short of its limit.
InitJournalRace ==
  /\ using_supabase = FALSE
  /\ use_supabase_auth = FALSE
  /\ supabase_available = FALSE
  /\ provider_reachable = TRUE
  /\ LLM_AVAILABLE = TRUE
  /\ webhook_secret = TRUE
  /\ tokens = {1}
  /\ \E t \in {"free", "pro"} :
       LET seeded == JournalLimit(t) - 1 IN
       /\ users = (1 :> [User(1) EXCEPT !.subscription_tier = t,
                                        !.daily_journals_used = seeded,
                                        !.last_journal_date =
                                          IF seeded = 0 THEN None ELSE 1])
       /\ journals = {Journal(i, 1, None, 1) : i \in 1..seeded}
  /\ ifs_systems = {IFSSystem(1, 1)}
  /\ parts = {Part(1, 1, "Self", "Self")}
  /\ guided_sessions = {}
  /\ session_messages = {}
  /\ relationships = {}
  /\ today = 1
  /\ llm_calls = 0
  /\ inflight = <<>>
  /\ environ = <<>>
  /\ resp = NoRequest

ReadJournalCounter ==
  /\ Cardinality(journals) + Cardinality(DOMAIN inflight) < MaxJournals
  /\ \E n \in FreeRequestIds, tok \in tokens \cup {None} : create_journal_read(n, tok)

CommitJournal ==
  \E n \in DOMAIN inflight, valid \in BOOLEAN :
    \E fail \in FailsIf(valid, {"journal"}) : create_journal_commit(n, fail, valid)

NextJournalRace ==
  \/ ReadJournalCounter
  \/ CommitJournal
  \/ Tick

SpecJournalRace == InitJournalRace /\ [][NextJournalRace]_vars

\* The database after a verified checkout.session.completed event has linked
\* user LinkedUser to customer LinkedStripeId and subscription LinkedStripeId
\* on a paid tier; from then on Stripe delivers update, invoice and deletion
\* events only, and anybody may post deliveries that do not verify.
LinkedUser == 1
LinkedStripeId == 1
CheckoutEvent(tier) ==
  [BlankEvent EXCEPT !.type = "checkout.session.completed", !.user_id = LinkedUser,
                     !.customer = LinkedStripeId, !.subscription = LinkedStripeId,
                     !.price = tier]

InitSubscribed ==
  /\ use_supabase_auth = FALSE
  /\ using_supabase = FALSE
  /\ supabase_available = TRUE
  /\ provider_reachable = TRUE
  /\ LLM_AVAILABLE = TRUE
  /\ webhook_secret = TRUE
  /\ tokens = {1, 2}
  /\ \E tier \in {"pro", "unlimited"} :
       users = checkout_completed((1 :> User(1)) @@ (2 :> User(2)),
                                  CheckoutEvent(tier)).users
  /\ ifs_systems = {IFSSystem(1, 1), IFSSystem(2, 2)}
  /\ parts = {Part(1, 1, "Self", "Self"), Part(2, 2, "Self", "Self")}
  /\ guided_sessions = {}
  /\ session_messages = {}
  /\ journals = {}
  /\ relationships = {}
  /\ today = 1
  /\ llm_calls = 0
  /\ inflight = <<>>
  /\ environ = <<>>
  /\ resp = NoRequest

EventsOfType(types) == {ev \in Events : ev.type \in types}

SubscriptionUpdated ==
  \E ev \in EventsOfType({"customer.subscription.updated"}) : stripe_webhook("verified", ev)

InvoiceEvent ==
  \E ev \in EventsOfType({"invoice.paid", "invoice.payment_failed"}) :
    stripe_webhook("verified", ev)

SubscriptionDeleted ==
  \E ev \in EventsOfType({"customer.subscription.deleted"}) : stripe_webhook("verified", ev)

NextSubscribed ==
  \/ StripeWebhookRefused
  \/ SubscriptionUpdated
  \/ InvoiceEvent
  \/ SubscriptionDeleted

SpecSubscribed == InitSubscribed /\ [][NextSubscribed]_vars

\* ----------------------------------------------------------- env_manager.py
\* Values are written as tuples of words: an environment name, or, for a
\* variable set by a file, the name of that file.
Environments == {<<"development">>, <<"production">>}
EnvVars == {"DEBUG"}
OsValue == <<"os">>

\* env = os.environ.get('FLASK_ENV', 'development')
FlaskEnv(e) == IF "FLASK_ENV" \in DOMAIN e THEN e["FLASK_ENV"] ELSE <<"development">>

SharedFile == <<".env", "shared">>

\* env_files, in the order the loop visits them.
env_files(env) ==
  << <<".env">> \o env \o <<"local">>,
     <<".env">> \o env,
     <<".env", "local">>,
     <<".env">> >>

\* Every file name the loader can look for, whatever FLASK_ENV is.
AllEnvFiles ==
  {SharedFile} \cup UNION {{env_files(env)[i] : i \in 1..4} : env \in Environments}

\* The working directory: the files present and the variables each one sets
\* (a file sets a variable to its own name, so the origin of a value shows).
FileSystem(present, defining) ==
  IF present = {} THEN <<>>
  ELSE [f \in present |-> IF f \in defining THEN [k \in EnvVars |-> f] ELSE <<>>]

\* load_dotenv(path, override): every variable of the file is put into
\* os.environ, except, without override, one that os.environ already has.
load_dotenv(e, fs, path, override) ==
  LET file == fs[path]
      keys == {k \in DOMAIN file : override \/ k \notin DOMAIN e}
  IN IF DOMAIN e \cup keys = {} THEN <<>>
     ELSE [k \in DOMAIN e \cup keys |-> IF k \in keys THEN file[k] ELSE e[k]]

\* for env_file in env_files: if os.path.isfile(env_file): load_dotenv(env_file, override=True)
RECURSIVE load_env_files(_, _, _, _)
load_env_files(e, fs, files, i) ==
  IF i > Len(files) THEN e
  ELSE load_env_files(IF files[i] \in DOMAIN fs THEN load_dotenv(e, fs, files[i], TRUE) ELSE e,
                      fs, files, i + 1)

load_environment(e, fs) ==
  LET env == FlaskEnv(e)
      e1 == IF SharedFile \in DOMAIN fs THEN load_dotenv(e, fs, SharedFile, FALSE) ELSE e
  IN load_env_files(e1, fs, env_files(env), 1)

\* The process starts with FLASK_ENV and the variable set in the shell or not,
\* and the application loads its environment once, when it is imported.
StartEnviron(flask_env, set) ==
  LET D == (IF flask_env = <<>> THEN {} ELSE {"FLASK_ENV"}) \cup set
  IN IF D = {} THEN <<>> ELSE [k \in D |-> IF k = "FLASK_ENV" THEN flask_env ELSE OsValue]

InitEnv ==
  /\ use_supabase_auth = FALSE
  /\ supabase_available = FALSE
  /\ provider_reachable = TRUE
  /\ using_supabase = FALSE
  /\ LLM_AVAILABLE = FALSE
  /\ webhook_secret = TRUE
  /\ tokens = {}
  /\ users = <<>>
  /\ ifs_systems = {}
  /\ parts = {}
  /\ guided_sessions = {}
  /\ session_messages = {}
  /\ journals = {}
  /\ relationships = {}
  /\ today = 1
  /\ llm_calls = 0
  /\ inflight = <<>>
  /\ \E flask_env \in Environments \cup {<<>>}, set \in SUBSET EnvVars :
       environ = StartEnviron(flask_env, set)
  /\ resp = NoRequest

LoadEnvironment ==
  /\ resp = NoRequest
  /\ \E present \in SUBSET AllEnvFiles :
       \E defining \in SUBSET present :
         LET fs == FileSystem(present, defining) IN
         /\ environ' = load_environment(environ, fs)
         /\ resp' = [op |-> "load_environment", fs |-> fs, before |-> environ]
  /\ UNCHANGED <<config_vars, tokens, db_vars, provider_reachable, today, llm_calls, inflight>>

NextEnv == LoadEnvironment

SpecEnv == InitEnv /\ [][NextEnv]_vars

\* ------------------------------------------------------------------ claims
ProtectedOps ==
  {"get_system", "reset_system", "get_parts", "create_part", "update_part", "delete_part"}

\* C1: a delete-part request whose target is the part named "Self" is
\* answered 403 and the part is still in the table afterwards.
C1_SelfDeleteRejected ==
  (resp.op = "delete_part" /\ resp.status # 401
     /\ \E p \in resp.target : p.name = "Self")
  => (resp.status = 403 /\ resp.target \subseteq parts)

\* C2: once an authenticated request of a user has been served, exactly one
\* System row exists for that user.
C2_OneSystemAfterAuth ==
  (resp.op \in ProtectedOps /\ resp.status \in {200, 201})
  => Cardinality(SystemsOf(ifs_systems, resp.user)) = 1

\* C3: every System row has exactly one part whose role is "Self".
C3_OneSelfPerSystem ==
  \A s \in ifs_systems : Cardinality(SelfRoleParts(parts, s.id)) = 1

\* The quota of parts the specification gives each tier.
PartLimit(tier) == IF tier = "pro" THEN 20 ELSE 10
OwnerTier(system_id) ==
  users[(CHOOSE s \in ifs_systems : s.id = system_id).user_id].subscription_tier

\* C4: a create-part request on a system whose live part count equals the
\* owner's tier limit is answered 403 and adds no row; below the limit it is
\* answered 201 and the count grows by one.
C4_PartQuotaEnforced ==
  (resp.op = "create_part" /\ resp.status # 401
     /\ resp.system_id \in {s.id : s \in ifs_systems}
     /\ OwnerTier(resp.system_id) # "unlimited")
  => IF resp.before >= PartLimit(OwnerTier(resp.system_id))
     THEN resp.status = 403 /\ resp.after = resp.before
     ELSE resp.status = 201 /\ resp.after = resp.before + 1

\* The message quota the specification gives each tier.
ClaimedMessageLimit(tier) == IF tier = "pro" THEN 30 ELSE 10

\* The step is an add-message request of an existing user on a session they
\* own, sent with a valid token.
AddMessageOnOwnSession ==
  /\ resp'.op = "add_session_message"
  /\ resp'.user \in tokens
  /\ resp'.user \in DOMAIN users
  /\ \E x \in guided_sessions : x.id = resp'.session_id /\ x.user_id = resp'.user

\* C5: for a user below the unlimited tier whose last_message_date is before
\* today and whose counter equals the tier limit, a well-formed add-message
\* request that meets no database failure (the inference service loaded) is
\* answered 201 and leaves the counter at 1 and last_message_date at today.
C5_FirstMessageAfterRollover ==
  [][(/\ AddMessageOnOwnSession
      /\ LLM_AVAILABLE
      /\ resp'.status \notin {400, 500}
      /\ users[resp'.user].subscription_tier # "unlimited"
      /\ users[resp'.user].last_message_date # None
      /\ users[resp'.user].last_message_date < today
      /\ users[resp'.user].daily_messages_used =
           ClaimedMessageLimit(users[resp'.user].subscription_tier))
     => (/\ resp'.status = 201
         /\ users'[resp'.user].daily_messages_used = 1
         /\ users'[resp'.user].last_message_date = today)]_vars

\* C6: when the counter of a user below the unlimited tier is dated today and
\* is at or above the tier limit (free 10, pro 30), an add-message request is
\* answered 403, the inference API is not called, no session_messages row
\* is created and the user rows are unchanged.
C6_LimitRejectsBeforeWork ==
  [][(/\ AddMessageOnOwnSession
      /\ users[resp'.user].subscription_tier # "unlimited"
      /\ users[resp'.user].last_message_date = today
      /\ users[resp'.user].daily_messages_used >=
           ClaimedMessageLimit(users[resp'.user].subscription_tier))
     => (/\ resp'.status = 403
         /\ llm_calls' = llm_calls
         /\ session_messages' = session_messages
         /\ users' = users)]_vars

\* C6 witness: a request of a user whose counter, dated today, is at or above
\* the limit has been answered 403.
C6_Witness ==
  /\ resp.op = "add_session_message"
  /\ resp.status = 403
  /\ resp.user \in DOMAIN users
  /\ users[resp.user].last_message_date = today
  /\ users[resp.user].daily_messages_used >=
       ClaimedMessageLimit(users[resp.user].subscription_tier)

\* The journal quota the specification gives each tier.
ClaimedJournalLimit(tier) == IF tier = "pro" THEN 10 ELSE 1

JournalsOn(user_id, day) ==
  {j \in journals : j.day = day /\ \E x \in ifs_systems :
                                     x.id = j.system_id /\ x.user_id = user_id}

\* C8: a free (resp. pro) user never has more than 1 (resp. 10) journal rows
\* created on one day; a create-journal request of a user who already has
\* that many rows today is answered 403 and creates no row; a request of an
\* unlimited user is never answered 403.
C8_JournalQuota ==
  /\ [](\A u \in DOMAIN users, day \in Days :
          users[u].subscription_tier # "unlimited"
          => Cardinality(JournalsOn(u, day))
               <= ClaimedJournalLimit(users[u].subscription_tier))
  /\ [][(/\ resp'.op = "create_journal"
         /\ resp'.user \in tokens
         /\ resp'.user \in DOMAIN users
         /\ SystemsOf(ifs_systems, resp'.user) # {}
         /\ users[resp'.user].subscription_tier # "unlimited"
         /\ Cardinality(JournalsOn(resp'.user, today))
              >= ClaimedJournalLimit(users[resp'.user].subscription_tier))
        => (resp'.status = 403 /\ journals' = journals)]_vars
  /\ [](/\ resp.op = "create_journal"
        /\ resp.user \in DOMAIN users
        /\ users[resp.user].subscription_tier = "unlimited"
        => resp.status # 403)

\* C8 witness: a user with exactly the tier's quota of journal rows today has
\* been refused a further one.
C8_Witness ==
  /\ resp.op = "create_journal"
  /\ resp.status = 403
  /\ resp.user \in DOMAIN users
  /\ Cardinality(JournalsOn(resp.user, today))
       = ClaimedJournalLimit(users[resp.user].subscription_tier)
  /\ users[resp.user].subscription_tier = "pro"

\* The step is a webhook delivery whose signature verified against the
\* configured secret.
VerifiedDelivery ==
  /\ resp'.op = "stripe_webhook"
  /\ webhook_secret
  /\ resp'.delivery = "verified"

\* C9: a verified customer.subscription.deleted event whose subscription id is
\* some user's stripe_subscription_id sets that user's tier to free, status to
\* canceled and subscription id to null, keeps the customer id and leaves
\* every other field and every other user unchanged; for a subscription id no
\* user holds the answer is 200 and no row changes.
C9_SubscriptionDeleted ==
  [][(VerifiedDelivery /\ resp'.type = "customer.subscription.deleted")
     => LET holders == {u \in DOMAIN users :
                          users[u].stripe_subscription_id = resp'.deleted}
        IN IF holders = {}
           THEN resp'.status = 200 /\ users' = users
           ELSE \A u \in DOMAIN users :
                  users'[u] = IF u \in holders
                              THEN [users[u] EXCEPT
                                      !.subscription_tier = "free",
                                      !.subscription_status = "canceled",
                                      !.stripe_subscription_id = None]
                              ELSE users[u]]_vars

\* C9 witness: a deletion event has just canceled the subscription of a user
\* while another user holds a row of their own.
C9_Witness ==
  /\ resp.op = "stripe_webhook"
  /\ resp.type = "customer.subscription.deleted"
  /\ resp.status = 200
  /\ resp.user \in DOMAIN users
  /\ users[resp.user].subscription_status = "canceled"
  /\ users[resp.user].subscription_tier = "free"
  /\ users[resp.user].stripe_subscription_id = None
  /\ users[resp.user].stripe_customer_id # None
  /\ DOMAIN users # {resp.user}

\* C10: a delivery that does not verify (no configured secret, a missing
\* payload or signature header, an invalid payload or signature) changes no
\* user row, and is answered 500 without a secret and 400 otherwise.
C10_UnverifiedChangesNothing ==
  [][(/\ resp'.op = "stripe_webhook"
      /\ \/ ~webhook_secret
         \/ resp'.delivery \in {"no_payload", "no_signature", "bad_payload",
                                 "bad_signature"})
     => (/\ users' = users
         /\ resp'.status = IF webhook_secret THEN 400 ELSE 500)]_vars

\* C10 witness: a delivery with a bad signature has been refused while some
\* user holds a paid subscription the event could have touched.
C10_Witness ==
  /\ resp.op = "stripe_webhook"
  /\ resp.delivery = "bad_signature"
  /\ resp.status = 400
  /\ \E u \in DOMAIN users : users[u].stripe_subscription_id # None

\* The bearer token of the step's request does not verify: none was sent, or
\* it is not a token of any account.
BadToken == resp'.op \in ProtectedOps /\ resp'.user \notin tokens

\* The wrapped handler ran: auth_required answers 401 or 503 itself.
HandlerRan == resp'.op \in ProtectedOps /\ resp'.status \notin {401, 503}

\* C11 as stated: a request to a protected route whose token is missing or
\* invalid is answered 401 and changes no table, and the handler runs only
\* for a token that verified.
C11_BadTokenIs401 ==
  [][/\ BadToken => (resp'.status = 401 /\ UNCHANGED db_vars)
     /\ HandlerRan => resp'.user \in tokens]_vars

\* C11 amended: a request to a protected route whose token is missing or
\* invalid is answered 401 (503 when hosted auth is configured and the
\* provider client is missing), changes no table, and the handler runs only
\* for a token that verified.
C11_BadTokenShortCircuits ==
  [][/\ BadToken
          => /\ resp'.status = IF use_supabase_auth /\ ~supabase_available
                                THEN 503 ELSE 401
             /\ UNCHANGED db_vars
     /\ HandlerRan
          => /\ resp'.user \in tokens
             /\ use_supabase_auth => supabase_available /\ provider_reachable]_vars

\* C11 witness: a request without a valid token has been answered 401 while
\* the database holds a user, a system and a part.
C11_Witness ==
  /\ resp.op \in ProtectedOps
  /\ resp.user \notin tokens
  /\ resp.status = 401
  /\ users # <<>> /\ ifs_systems # {} /\ parts # {}

\* The user who owns the system a part row belongs to.
PartOwner(p) == (CHOOSE s \in ifs_systems : s.id = p.system_id).user_id

\* C12: an update or delete request of an authenticated user on a part of
\* another user's system is answered 403 or 404 and leaves the part as it was.
C12_NoCrossTenantPartAccess ==
  (/\ resp.op \in {"update_part", "delete_part"}
   /\ resp.status \notin {401, 503}
   /\ \E p \in resp.target : PartOwner(p) # resp.user)
  => (resp.status \in {403, 404} /\ resp.target \subseteq parts)

SessionOps ==
  {"get_guided_session", "add_session_message", "update_guided_session",
   "delete_guided_session"}

\* The step serves a request of an authenticated user on a session that
\* exists and belongs to somebody else.
CrossTenantSessionRequest ==
  /\ resp'.op \in SessionOps
  /\ resp'.status \notin {401, 503}
  /\ \E x \in guided_sessions : x.id = resp'.session_id /\ x.user_id # resp'.user

\* The response carries no session or message data, and the sessions, the
\* messages and the user rows are as before.
NothingServed ==
  /\ IF resp'.op = "add_session_message" THEN resp'.guide = "none" ELSE resp'.data = {}
  /\ UNCHANGED <<guided_sessions, session_messages, users>>

\* C13 as stated: a request on a session of another user is answered 404,
\* returns no session or message data and changes neither the session, its
\* messages nor the user rows.
C13_ForeignSessionIs404 ==
  [][CrossTenantSessionRequest => (resp'.status = 404 /\ NothingServed)]_vars

\* C13 amended: a request on a session of another user returns no session or
\* message data and changes neither the session, its messages nor the user
\* rows; it is answered 404, except that an update request whose body is not
\* valid is answered 400 (validation error) or 500 (not JSON) before the
\* session is looked up.
C13_ForeignSessionDenied ==
  [][CrossTenantSessionRequest
     => /\ NothingServed
        /\ IF resp'.op = "update_guided_session" /\ resp'.body # "valid"
           THEN resp'.status = IF resp'.body = "invalid" THEN 400 ELSE 500
           ELSE resp'.status = 404]_vars

\* C13 witness: user 2 has been refused the deletion of a session of user 1
\* that holds messages.
C13_Witness ==
  /\ resp.op = "delete_guided_session"
  /\ resp.status = 404
  /\ \E x \in guided_sessions : x.id = resp.session_id /\ x.user_id # resp.user
  /\ \E m \in session_messages : m.session_id = resp.session_id

\* C14: a registration under an address that a users row already holds is
\* answered 400 and creates no user, system or part row, in local and in
\* hosted auth mode.
C14_DuplicateEmailIs400 ==
  [][(/\ resp'.op = "register"
      /\ \E u \in DOMAIN users : users[u].email = resp'.user)
     => (resp'.status = 400 /\ UNCHANGED <<users, ifs_systems, parts>>)]_vars

\* C15: in local auth mode a login under the address of an existing user is
\* answered 200 with an access token and no refresh token when the password
\* is right, and 401 when it is wrong.
C15_LocalLogin ==
  (/\ resp.op = "login"
   /\ ~use_supabase_auth
   /\ \E u \in DOMAIN users : users[u].email = resp.user)
  => IF resp.correct
     THEN resp.status = 200 /\ resp.access_token /\ ~resp.refresh_token
     ELSE resp.status = 401

\* users.email is unique.
EmailsUnique(us) == \A u, v \in DOMAIN us : us[u].email = us[v].email => u = v

\* C16: in hosted auth mode, when the handler of a protected route runs, a
\* users row with the provider id exists: the row with that id as it was,
\* else the row with the provider's address moved to the provider id, else a
\* new row with that id and address; and no two rows share an address.
C16_LocalRowForProviderUser ==
  [][(HandlerRan /\ use_supabase_auth)
     => LET uid == resp'.user
            email_user == UserByEmail(users, ProviderEmail(uid))
        IN /\ uid \in DOMAIN users'
           /\ users' = IF uid \in DOMAIN users THEN users
                        ELSE IF email_user # None THEN Rekey(users, email_user, uid)
                        ELSE users @@ (uid :> User(ProviderEmail(uid)))
           /\ EmailsUnique(users')]_vars

\* C17: when the handler of a protected route has run for an authenticated
\* user (here the read-only GET /parts, which leaves the tables as it found
\* them), the user has a System that contains a part with role "Self".
C17_SystemAndSelfBeforeHandler ==
  (resp.op = "get_parts" /\ resp.status = 200)
  => \E sys \in SystemsOf(ifs_systems, resp.user) : SelfRoleParts(parts, sys.id) # {}

\* C18: in hosted auth mode, a request to a protected route that carries a
\* token while the provider cannot be reached (no client, or the provider
\* does not answer the verification call) is answered 503.
C18_UnreachableProviderIs503 ==
  [][(/\ resp'.op \in ProtectedOps
      /\ resp'.user # None
      /\ use_supabase_auth
      /\ ~supabase_available \/ ~provider_reachable)
     => resp'.status = 503]_vars

\* C19: no call of the persistence adapter made by add_session_message ends
\* with an exception in the handler (the create calls return a row or None;
\* the get_all call for the recent messages returns a list).
C19_AdapterNeverRaises ==
  resp.op = "add_session_message" => resp.history \in {"not_called", "list"}

\* C20: a Part created through the adapter with feelings = L and fetched at
\* once with get_by_id has feelings equal to L, as a list in the same order,
\* in the ORM backend and in the REST backend.
C20_FeelingsRoundTrip ==
  (resp.op = "create_then_get" /\ resp.id # None)
  => (resp.fetched.type = "list" /\ resp.fetched.items = resp.sent)

\* C21: with requests served one at a time, no two relationships share
\* (source part, target part, system), and a create request of a signed-in
\* user for a triple that already has a relationship is answered 400 and
\* leaves the table as it was.
OnePerTriple ==
  \A r1, r2 \in relationships :
    (r1.part1_id = r2.part1_id /\ r1.part2_id = r2.part2_id /\ r1.system_id = r2.system_id)
    => r1 = r2

C21_OneRelationshipPerTriple ==
  /\ []OnePerTriple
  /\ [][(/\ resp'.op = "create_relationship"
         /\ resp'.system_id # None
         /\ RelationshipsOfTriple(relationships, resp'.source_id, resp'.target_id,
                                  resp'.system_id) # {})
        => (resp'.status = 400 /\ UNCHANGED relationships)]_vars

C21_Witness ==
  /\ resp.op = "create_relationship"
  /\ resp.existed
  /\ resp.status = 400
  /\ RelationshipsOfTriple(relationships, resp.source_id, resp.target_id,
                           resp.system_id) # {}

\* C30: in local ORM mode, with part and relationship requests served one at
\* a time, the source part and the target part of every relationship exist
\* and belong to the relationship's system.
C30_RelationshipPartsInSystem ==
  \A r \in relationships :
    /\ PartById(PartsOf(parts, r.system_id), r.part1_id) # {}
    /\ PartById(PartsOf(parts, r.system_id), r.part2_id) # {}

C30_Witness ==
  /\ resp.op = "delete_part"
  /\ resp.status = 200
  /\ resp.cascaded > 0
  /\ relationships # {}

\* C23: when create-relationship requests for the same triple are served
\* at overlapping times, the table still holds at most one relationship per
\* (source part, target part, system).
C23_OnePerTripleUnderOverlap ==
  \A r \in relationships :
    Cardinality(RelationshipsOfTriple(relationships, r.part1_id, r.part2_id,
                                      r.system_id)) <= 1

\* C29: create_journal writes the journal row and the counter together or not
\* at all.  With create-journal requests served one at a time, for a user
\* below the unlimited tier: a counter dated today equals the number of the
\* user's journal rows created today, a counter dated otherwise goes with no
\* row created today, and a request that is not answered 201 changes neither
\* the journals nor the user rows.
C29_CounterMatchesRows ==
  /\ [](\A u \in DOMAIN users :
          users[u].subscription_tier # "unlimited"
          => IF users[u].last_journal_date = today
             THEN users[u].daily_journals_used = Cardinality(JournalsOn(u, today))
             ELSE JournalsOn(u, today) = {})
  /\ [][(resp'.op = "create_journal" /\ resp'.status # 201)
        => UNCHANGED <<journals, users>>]_vars

\* C29 witness: after at least one journal of today, a request whose insert
\* the database refused has been answered 500 and the counter still equals
\* the rows.
C29_Witness ==
  /\ resp.op = "create_journal"
  /\ resp.status = 500
  /\ resp.user \in DOMAIN users
  /\ users[resp.user].subscription_tier = "pro"
  /\ users[resp.user].last_journal_date = today
  /\ users[resp.user].daily_journals_used = 2
  /\ Cardinality(JournalsOn(resp.user, today)) = 2

\* C22: lost update on the journal counter.  A create-journal request of a
\* user below the unlimited tier that commits writes the counter it read plus
\* one, whatever the row holds by then; when another request has raised
\* today's counter above that reading in the meantime, the commit leaves the
\* stored counter smaller than the number of journals created today.
C22_LostUpdate ==
  [][(/\ resp'.op = "create_journal"
      /\ resp'.status = 201
      /\ users[resp'.user].subscription_tier # "unlimited")
     => LET u == resp'.user
            today_rows == {j \in journals' : j.day = today /\ j.system_id \in
                             {x.id : x \in SystemsOf(ifs_systems, u)}}
        IN
        /\ users'[u].daily_journals_used = resp'.read + 1
        /\ Cardinality(journals') = Cardinality(journals) + 1
        /\ (users[u].last_journal_date = today /\ users[u].daily_journals_used > resp'.read)
           => users'[u].daily_journals_used < Cardinality(today_rows)]_vars

\* C22 witness: two requests of a free user read the counter 0, both passed
\* the limit check and both were answered 201: two journals today against a
\* limit of 1, and a stored counter of 1.
C22_Witness ==
  /\ resp.op = "create_journal"
  /\ resp.status = 201
  /\ users[resp.user].subscription_tier = "free"
  /\ Cardinality(JournalsOn(resp.user, today)) = 2
  /\ Cardinality(JournalsOn(resp.user, today)) > JournalLimit("free")
  /\ users[resp.user].daily_journals_used = 1
  /\ users[resp.user].last_journal_date = today

\* C24: after a verified customer.subscription.updated event has been
\* processed for a known user with a status other than active and trialing,
\* the user's subscription_tier is "free", whatever price and
\* cancel_at_period_end the event carries.
C24_InactiveStatusMeansFree ==
  (/\ resp.op = "stripe_webhook"
   /\ resp.type = "customer.subscription.updated"
   /\ resp.status = 200
   /\ resp.user # None
   /\ resp.new_status \notin {"active", "trialing"})
  => users[resp.user].subscription_tier = "free"

\* C27: once checkout.session.completed has linked a user to a subscription,
\* a processed customer.subscription.deleted event for that subscription
\* leaves the user on the free tier with no subscription id, whatever update
\* and invoice events were processed in between.
C27_DeletedAfterCheckoutIsFree ==
  (/\ resp.op = "stripe_webhook"
   /\ resp.type = "customer.subscription.deleted"
   /\ resp.deleted = LinkedStripeId
   /\ resp.status = 200)
  => /\ users[LinkedUser].subscription_tier = "free"
     /\ users[LinkedUser].stripe_subscription_id = None

\* The handled event types.
HandledEvents ==
  EventsOfType({"checkout.session.completed", "customer.subscription.updated",
                "customer.subscription.deleted", "invoice.paid",
                "invoice.payment_failed"})

MessagesOfSession(ms, session_id) == {m \in ms : m.session_id = session_id}
TopicsOf(ss, session_id) == {x.topic : x \in {y \in ss : y.id = session_id}}

\* C25: an update-session request on a session with fewer than 3 messages
\* leaves the session's topic as it was, and an update that succeeds on a
\* session with 3 or more messages whose text yields keywords sets the topic
\* to them.
C25_TopicFromThreeMessages ==
  [][resp'.op = "update_guided_session"
     => LET n == Cardinality(MessagesOfSession(session_messages, resp'.session_id)) IN
        /\ n < 3 => TopicsOf(guided_sessions', resp'.session_id)
                      = TopicsOf(guided_sessions, resp'.session_id)
        /\ (n >= 3 /\ resp'.status = 200 /\ resp'.extractable)
           => TopicsOf(guided_sessions', resp'.session_id) = {"keywords"}]_vars

\* The documented order of the environment files, highest priority first.
Priority(env) == env_files(env) \o <<SharedFile>>
DefiningRanks(fs, env, k) ==
  {i \in 1..5 : Priority(env)[i] \in DOMAIN fs /\ k \in DOMAIN fs[Priority(env)[i]]}

\* C26: after load_environment, a variable that several of the environment
\* files present define has the value given by the one that comes first in
\* the order .env.{environment}.local, .env.{environment}, .env.local, .env,
\* .env.shared.
C26_HighestPriorityFileWins ==
  [][resp'.op = "load_environment"
     => \A k \in EnvVars :
          LET env == FlaskEnv(environ)
              ranks == DefiningRanks(resp'.fs, env, k)
          IN Cardinality(ranks) >= 2
             => environ'[k] = resp'.fs[Priority(env)[Min(ranks)]][k]]_vars


====
